---------------------------- MODULE Spec2Model ----------------------------
(***************************************************************************)
(* A model of the sweep-bptree B+ tree: leaf nodes (src/leaf_node.rs),       *)
(* the node store (src/node_store.rs), the tree driver (src/tree/mod.rs)     *)
(* and the range-carrying leaf cache of the older driver (src/lib.rs).       *)
(* Slot indices are 0-based as in the source; node ids are the 1-based       *)
(* position of a node in the store's vector, and None is 0.                  *)
(***************************************************************************)
EXTENDS Integers, Sequences, FiniteSets, TLC

\* ------------------------------------------------------------------ bounds
\* keys and values of the calls of Spec
MaxKey == 4
MaxVal == 2
\* keys of the calls of SpecDeep, enough for a tree of height 3
MaxDeepKey == 6
\* slots the node store may allocate
MaxLeafIds == 5
MaxInnerIds == 3
\* keys and leaf slots of SpecWide, enough to split a leaf of eight entries
MaxWideKey == 9
MaxWideLeafIds == 3
\* SpecCursor: the keys and values of Spec with at most MaxCursorLeafIds leaf slots
MaxCursorLeafIds == 4
\* SpecFold: sorted keys 1..MaxFoldKey cut into MaxChunks chunks
MaxFoldKey == 6
MaxChunks == 3
\* split_new_leaf alone: leaves of capacity 1..MaxSplitLeafN, keys 1..MaxSplitKey
MaxSplitLeafN == 5
MaxSplitKey == 6
\* rebalancing alone: trees of a root over 2..MaxFixLeaves leaves
MaxFixLeaves == 3

Keys == 1..MaxKey
\* the groups and offsets a query is made with: every group of DeepKeys and
\* one above, every offset up to the number of keys
Groups == 0..(MaxDeepKey \div 2 + 1)
Offsets == 0..MaxDeepKey
Vals == 1..MaxVal
DeepKeys == 1..MaxDeepKey
WideKeys == 1..MaxWideKey
\* every key a call is made with
AllKeys == Keys \cup DeepKeys \cup WideKeys

\* fan-outs <<IN, LN>> the tree is instantiated with: Spec, SpecDeep
FanOuts == {<<2, 2>>, <<3, 3>>}
DeepFanOuts == {<<2, 2>>, <<3, 2>>}
WideFanOuts == {<<2, 8>>}
CursorFanOuts == {<<2, 2>>}
\* SpecGroup: leaves of two entries, and of four, which can hold three groups
GroupFanOuts == {<<2, 2>>, <<2, 4>>}
\* where the one-slot leaf cache lives: in the node store (tree/mod.rs) or in
\* the tree as a CacheItem carrying a copy of the key range (lib.rs)
Variants == {"store", "item"}

None == 0

VARIABLES
    inner_n,      \* NodeStore::inner_n(), IN
    leaf_n,       \* NodeStore::leaf_n(), LN
    variant,      \* which leaf cache the build uses
    root,         \* BPlusTree.root
    len,          \* BPlusTree.len
    leaf_nodes,   \* NodeStoreVec.leaf_nodes
    inner_nodes,  \* NodeStoreVec.inner_nodes
    leaf_cache,   \* the one-slot leaf cache
    panic,        \* "none", or the panic site that was reached
    ref_map,      \* reference map: key -> value, None when absent
    cursor,       \* the Cursor the caller holds, NoCursor when it holds none
    fold,         \* the chunks of keys from_inner is run on, and how far it got
    call          \* the call in progress and the position it has reached, NoCall between calls

vars == <<inner_n, leaf_n, variant, root, len, leaf_nodes, inner_nodes,
          leaf_cache, panic, ref_map, cursor, fold, call>>

\* no call is in progress
NoCall == [op |-> "idle", pc |-> "idle", path |-> "none", k |-> 0, v |-> 0, id |-> 0,
           stack |-> <<>>, r |-> 0, steps |-> 0, pops |-> 0, T0 |-> 0, n |-> 0]

\* --------------------------------------------------------------- utilities
\* utils::slice_insert: insert x at 0-based index idx
slice_insert(s, idx, x) == SubSeq(s, 1, idx) \o <<x>> \o SubSeq(s, idx + 1, Len(s))

\* utils::slice_remove: remove the element at 0-based index idx
slice_remove(s, idx) == SubSeq(s, 1, idx) \o SubSeq(s, idx + 2, Len(s))

\* the half-open 0-based range s[a..b)
slice(s, a, b) == SubSeq(s, a + 1, b)

\* slice::binary_search_by_key on a sorted key slice: Ok(idx) when s[idx] = k,
\* Err(idx) with idx the insertion point otherwise
binary_search(s, k) ==
    LET less == Cardinality({i \in 1..Len(s) : s[i] < k})
    IN  IF \E i \in 1..Len(s) : s[i] = k
        THEN [ok |-> TRUE,  idx |-> (CHOOSE i \in 1..Len(s) : s[i] = k) - 1]
        ELSE [ok |-> FALSE, idx |-> less]

LeafId(i) == [kind |-> "Leaf", id |-> i]
InnerId(i) == [kind |-> "Inner", id |-> i]

\* ---------------------------------------------------------------- LeafNode
\* LeafNode::new
leaf_new == [slot_key |-> <<>>, slot_value |-> <<>>, prev |-> None, next |-> None,
             taken |-> FALSE]

leaf_len(leaf) == Len(leaf.slot_key)

split_origin_size(N) == N \div 2

minimum_size(N) == IF N \div 4 = 0 THEN 1 ELSE N \div 4

leaf_is_full(leaf, N) == leaf_len(leaf) = N

\* able_to_lend that lets a leaf at its minimum give an entry away
leaf_able_to_lend_at_minimum(leaf, N) == leaf_len(leaf) >= minimum_size(N)

leaf_able_to_lend(leaf, N) == leaf_len(leaf) > minimum_size(N)

\* LeafNode::key_range: (first key, last key), (None, None) for an empty leaf
key_range(leaf) ==
    IF leaf_len(leaf) = 0 THEN <<None, None>>
    ELSE <<leaf.slot_key[1], leaf.slot_key[leaf_len(leaf)]>>

locate_child_idx(leaf, k) == binary_search(leaf.slot_key, k)

\* locate_slot_with_value giving slot 0 for an absent key
locate_slot_with_value_at_front(leaf, k) ==
    LET r == locate_child_idx(leaf, k)
    IN  IF r.ok THEN [idx |-> r.idx, v |-> leaf.slot_value[r.idx + 1]]
        ELSE [idx |-> 0, v |-> None]

\* LeafNode::locate_child / LNode::locate_slot_with_value
locate_slot_with_value(leaf, k) ==
    LET r == locate_child_idx(leaf, k)
    IN  IF r.ok THEN [idx |-> r.idx, v |-> leaf.slot_value[r.idx + 1]]
        ELSE [idx |-> r.idx, v |-> None]

\* try_upsert handing back the new value of an update instead of the old one
try_upsert_returns_new(leaf, k, v, N) ==
    LET r == locate_child_idx(leaf, k)
    IN  IF r.ok
        THEN [res |-> "Updated", idx |-> r.idx, v |-> v,
              leaf |-> [leaf EXCEPT !.slot_value[r.idx + 1] = v]]
        ELSE IF ~leaf_is_full(leaf, N)
        THEN [res |-> "Inserted", idx |-> r.idx, v |-> None,
              leaf |-> [leaf EXCEPT !.slot_key = slice_insert(@, r.idx, k),
                                    !.slot_value = slice_insert(@, r.idx, v)]]
        ELSE [res |-> "IsFull", idx |-> r.idx, v |-> None, leaf |-> leaf]

\* try_upsert asking first whether the leaf is full
try_upsert_full_first(leaf, k, v, N) ==
    LET r == locate_child_idx(leaf, k)
    IN  IF leaf_is_full(leaf, N)
        THEN [res |-> "IsFull", idx |-> r.idx, v |-> None, leaf |-> leaf]
        ELSE IF r.ok
        THEN [res |-> "Updated", idx |-> r.idx, v |-> leaf.slot_value[r.idx + 1],
              leaf |-> [leaf EXCEPT !.slot_value[r.idx + 1] = v]]
        ELSE [res |-> "Inserted", idx |-> r.idx, v |-> None,
              leaf |-> [leaf EXCEPT !.slot_key = slice_insert(@, r.idx, k),
                                    !.slot_value = slice_insert(@, r.idx, v)]]

\* LeafNode::try_upsert
try_upsert(leaf, k, v, N) ==
    LET r == locate_child_idx(leaf, k)
    IN  IF r.ok
        THEN [res |-> "Updated", idx |-> r.idx, v |-> leaf.slot_value[r.idx + 1],
              leaf |-> [leaf EXCEPT !.slot_value[r.idx + 1] = v]]
        ELSE IF ~leaf_is_full(leaf, N)
        THEN [res |-> "Inserted", idx |-> r.idx, v |-> None,
              leaf |-> [leaf EXCEPT !.slot_key = slice_insert(@, r.idx, k),
                                    !.slot_value = slice_insert(@, r.idx, v)]]
        ELSE [res |-> "IsFull", idx |-> r.idx, v |-> None, leaf |-> leaf]

\* split_new_leaf, but pushing the new item to the back of the new leaf
split_new_leaf_pushes_back(leaf, insert_idx, k, v, new_leaf_id, self_leaf_id, N) ==
    LET so == split_origin_size(N)
        new_keys == slice(leaf.slot_key, so, N)
        new_vals == slice(leaf.slot_value, so, N)
        old_keys == slice(leaf.slot_key, 0, so)
        old_vals == slice(leaf.slot_value, 0, so)
        new_node == [leaf_new EXCEPT !.prev = self_leaf_id, !.next = leaf.next]
    IN  IF insert_idx < so
        THEN [self |-> [leaf EXCEPT !.slot_key = slice_insert(old_keys, insert_idx, k),
                                    !.slot_value = slice_insert(old_vals, insert_idx, v),
                                    !.next = new_leaf_id],
              new  |-> [new_node EXCEPT !.slot_key = new_keys, !.slot_value = new_vals]]
        ELSE [self |-> [leaf EXCEPT !.slot_key = old_keys, !.slot_value = old_vals,
                                    !.next = new_leaf_id],
              new  |-> [new_node EXCEPT
                            !.slot_key = Append(new_keys, k),
                            !.slot_value = Append(new_vals, v)]]

\* LeafNode::split_new_leaf
split_new_leaf(leaf, insert_idx, k, v, new_leaf_id, self_leaf_id, N) ==
    LET so == split_origin_size(N)
        new_keys == slice(leaf.slot_key, so, N)
        new_vals == slice(leaf.slot_value, so, N)
        old_keys == slice(leaf.slot_key, 0, so)
        old_vals == slice(leaf.slot_value, 0, so)
        new_node == [leaf_new EXCEPT !.prev = self_leaf_id, !.next = leaf.next]
    IN  IF insert_idx < so
        THEN [self |-> [leaf EXCEPT !.slot_key = slice_insert(old_keys, insert_idx, k),
                                    !.slot_value = slice_insert(old_vals, insert_idx, v),
                                    !.next = new_leaf_id],
              new  |-> [new_node EXCEPT !.slot_key = new_keys, !.slot_value = new_vals]]
        ELSE [self |-> [leaf EXCEPT !.slot_key = old_keys, !.slot_value = old_vals,
                                    !.next = new_leaf_id],
              new  |-> [new_node EXCEPT
                            !.slot_key = slice_insert(new_keys, insert_idx - so, k),
                            !.slot_value = slice_insert(new_vals, insert_idx - so, v)]]

\* LeafNode::delete_at
delete_at(leaf, idx) ==
    [kv |-> <<leaf.slot_key[idx + 1], leaf.slot_value[idx + 1]>>,
     leaf |-> [leaf EXCEPT !.slot_key = slice_remove(@, idx),
                           !.slot_value = slice_remove(@, idx)]]

\* LeafNode::delete / LNode::try_delete
try_delete(leaf, k, N) ==
    LET r == locate_child_idx(leaf, k)
    IN  IF r.ok
        THEN IF leaf_able_to_lend(leaf, N)
             THEN [res |-> "Done", idx |-> r.idx, kv |-> delete_at(leaf, r.idx).kv,
                   leaf |-> delete_at(leaf, r.idx).leaf]
             ELSE [res |-> "UnderSize", idx |-> r.idx, kv |-> <<None, None>>, leaf |-> leaf]
        ELSE [res |-> "NotFound", idx |-> r.idx, kv |-> <<None, None>>, leaf |-> leaf]

\* LeafNode::pop: remove the last item
leaf_pop(leaf) == delete_at(leaf, leaf_len(leaf) - 1)

\* LeafNode::pop_front: remove the first item
leaf_pop_front(leaf) == delete_at(leaf, 0)

\* LeafNode::delete_with_push: delete the item at idx and append kv
delete_with_push(leaf, idx, kv) ==
    [kv |-> <<leaf.slot_key[idx + 1], leaf.slot_value[idx + 1]>>,
     leaf |-> [leaf EXCEPT !.slot_key = Append(slice_remove(@, idx), kv[1]),
                           !.slot_value = Append(slice_remove(@, idx), kv[2])]]

\* delete_with_push_front putting the borrowed item behind the others
delete_with_push_front_at_back(leaf, idx, kv) ==
    [kv |-> <<leaf.slot_key[idx + 1], leaf.slot_value[idx + 1]>>,
     leaf |-> [leaf EXCEPT !.slot_key = Append(slice_remove(@, idx), kv[1]),
                           !.slot_value = Append(slice_remove(@, idx), kv[2])]]

\* LeafNode::delete_with_push_front: delete the item at idx and prepend kv
delete_with_push_front(leaf, idx, kv) ==
    [kv |-> <<leaf.slot_key[idx + 1], leaf.slot_value[idx + 1]>>,
     leaf |-> [leaf EXCEPT
        !.slot_key = <<kv[1]>> \o slice(@, 0, idx) \o slice(@, idx + 1, Len(@)),
        !.slot_value = <<kv[2]>> \o slice(@, 0, idx) \o slice(@, idx + 1, Len(@))]]

\* merge_with_right_with_delete reading the deleted item out and still
\* copying it into the left leaf
merge_right_delete_first_keeps_item(leaf, delete_idx, right) ==
    [kv |-> <<right.slot_key[delete_idx + 1], right.slot_value[delete_idx + 1]>>,
     leaf |-> [leaf EXCEPT !.slot_key = @ \o right.slot_key,
                           !.slot_value = @ \o right.slot_value,
                           !.next = right.next]]

\* LeafNode::merge_with_right_with_delete / LNode::merge_right_delete_first:
\* append right without its item at delete_idx
merge_right_delete_first(leaf, delete_idx, right) ==
    [kv |-> <<right.slot_key[delete_idx + 1], right.slot_value[delete_idx + 1]>>,
     leaf |-> [leaf EXCEPT !.slot_key = @ \o slice_remove(right.slot_key, delete_idx),
                           !.slot_value = @ \o slice_remove(right.slot_value, delete_idx),
                           !.next = right.next]]

\* LeafNode::merge_right (with LeafNode::extend)
merge_right(leaf, right) ==
    [leaf EXCEPT !.slot_key = @ \o right.slot_key,
                 !.slot_value = @ \o right.slot_value,
                 !.next = right.next]


\* --------------------------------------------------------------- InnerNode
\* The inner node type (tree/inner_node.rs) is not among the sources; its
\* operations follow the contract of the INode trait and section 4.2.
inner_new(keys, childs) == [slot_key |-> keys, child_id |-> childs, taken |-> FALSE]

inner_len(node) == Len(node.slot_key)

inner_is_empty(node) == inner_len(node) = 0

\* child_id(idx), idx 0-based
child_at(node, idx) == node.child_id[idx + 1]

\* the minimum of an inner node, ceil(IN / 2)
inner_minimum_size(N) == (N + 1) \div 2

inner_is_full(node, N) == inner_len(node) = N

inner_able_to_lend(node, N) == inner_len(node) > inner_minimum_size(N)

\* INode::locate_child: equality routes right
locate_child(node, k) ==
    LET r == binary_search(node.slot_key, k)
        idx == IF r.ok THEN r.idx + 1 ELSE r.idx
    IN  [idx |-> idx, child_id |-> child_at(node, idx)]

\* INode::insert_at
insert_at(node, slot, key, right_child) ==
    [node EXCEPT !.slot_key = slice_insert(@, slot, key),
                 !.child_id = slice_insert(@, slot + 1, right_child)]

\* INode::split: the full node plus (k, new_child_id) at child_idx, cut at
\* floor(IN / 2); the key at the cut is promoted and stays in neither half
inner_split(node, child_idx, k, new_child_id, N) ==
    LET all == insert_at(node, child_idx, k, new_child_id)
        so == N \div 2
    IN  [key  |-> all.slot_key[so + 1],
         self |-> [node EXCEPT !.slot_key = slice(all.slot_key, 0, so),
                               !.child_id = slice(all.child_id, 0, so + 1)],
         new  |-> inner_new(slice(all.slot_key, so + 1, N + 1),
                            slice(all.child_id, so + 1, N + 2))]

\* INode::set_key, returns the node; the old key is node.slot_key[slot + 1]
set_key(node, slot, key) == [node EXCEPT !.slot_key[slot + 1] = key]

\* INode::pop: the last key and its right child
inner_pop(node) ==
    [k |-> node.slot_key[inner_len(node)], c |-> node.child_id[inner_len(node) + 1],
     node |-> [node EXCEPT !.slot_key = slice(@, 0, Len(@) - 1),
                           !.child_id = slice(@, 0, Len(@) - 1)]]

\* INode::pop_front: the first key and its left child
inner_pop_front(node) ==
    [k |-> node.slot_key[1], c |-> node.child_id[1],
     node |-> [node EXCEPT !.slot_key = Tail(@), !.child_id = Tail(@)]]

\* INode::push
inner_push(node, k, child) ==
    [node EXCEPT !.slot_key = Append(@, k), !.child_id = Append(@, child)]

\* INode::push_front
inner_push_front(node, k, child) ==
    [node EXCEPT !.slot_key = <<k>> \o @, !.child_id = <<child>> \o @]

\* INode::merge_next
merge_next(node, slot_key, right) ==
    [node EXCEPT !.slot_key = @ \o <<slot_key>> \o right.slot_key,
                 !.child_id = @ \o right.child_id]

\* INode::remove_slot_with_right: drops key(slot) and child(slot + 1)
remove_slot_with_right(node, slot, N) ==
    LET n2 == [node EXCEPT !.slot_key = slice_remove(@, slot),
                           !.child_id = slice_remove(@, slot + 1)]
    IN  [res |-> IF inner_len(n2) < inner_minimum_size(N) THEN "UnderSize" ELSE "Done",
         key |-> node.slot_key[slot + 1],
         node |-> n2]

\* --------------------------------------------------------------- NodeStore
\* the tree as one record, so that the handlers can thread it
Tree == [root |-> root, len |-> len, leaf_nodes |-> leaf_nodes,
         inner_nodes |-> inner_nodes, leaf_cache |-> leaf_cache, panic |-> panic,
         inner_n |-> inner_n, leaf_n |-> leaf_n, variant |-> variant]

set_panic(T, site) == IF T.panic = "none" THEN [T EXCEPT !.panic = site] ELSE T

NoCache == [leaf_id |-> None, start |-> None, end |-> None]

\* NodeStore::get_mut_leaf followed by a write; panics when the node is taken
put_leaf(T, id, leaf) ==
    IF id \notin 1..Len(T.leaf_nodes) \/ T.leaf_nodes[id].taken
    THEN set_panic(T, "get_mut_leaf")
    ELSE [T EXCEPT !.leaf_nodes[id] = leaf]

\* NodeStore::get_mut_inner followed by a write
put_inner(T, id, node) ==
    IF id \notin 1..Len(T.inner_nodes) \/ T.inner_nodes[id].taken
    THEN set_panic(T, "get_mut_inner")
    ELSE [T EXCEPT !.inner_nodes[id] = node]

\* NodeStoreVec::take_leaf: std::mem::take leaves a default leaf behind
take_leaf(T, id) == [T EXCEPT !.leaf_nodes[id] = [leaf_new EXCEPT !.taken = TRUE]]

\* NodeStoreVec::take_inner
take_inner(T, id) ==
    [T EXCEPT !.inner_nodes[id] = [inner_new(<<>>, <<>>) EXCEPT !.taken = TRUE]]

\* NodeStoreVec::add_inner: the id is the position in the vector
add_inner(T, node) == [T EXCEPT !.inner_nodes = Append(@, node)]

\* CacheItem::try_from
CacheItem_try_from(id, leaf) ==
    [leaf_id |-> id, start |-> key_range(leaf)[1], end |-> key_range(leaf)[2]]

\* CacheItem::in_range
CacheItem_in_range(item, k) ==
    LET is_lt_start == IF item.start # None THEN k < item.start ELSE FALSE
        is_gt_end == IF item.end # None THEN k > item.end ELSE FALSE
    IN  IF is_lt_start THEN FALSE ELSE ~is_gt_end

\* LNode::in_range: k within the leaf's current key range, inclusive
leaf_in_range(leaf, k) ==
    /\ leaf_len(leaf) > 0
    /\ key_range(leaf)[1] <= k
    /\ k <= key_range(leaf)[2]

\* NodeStore::cache_leaf (tree/mod.rs), BPlusTree::set_cache(CacheItem::try_from) (lib.rs)
cache_leaf(T, id) ==
    IF T.variant = "store"
    THEN [T EXCEPT !.leaf_cache = [NoCache EXCEPT !.leaf_id = id]]
    ELSE [T EXCEPT !.leaf_cache = CacheItem_try_from(id, T.leaf_nodes[id])]

\* the refresh of the cached range after a fast-path change (lib.rs only)
refresh_cache(T, id) == IF T.variant = "item" THEN cache_leaf(T, id) ELSE T

\* NodeStore::try_cache (tree/mod.rs), leaf_cache.get() + in_range (lib.rs)
try_cache(T, k) ==
    IF T.leaf_cache.leaf_id = None THEN None
    ELSE IF T.variant = "store"
    THEN IF /\ T.leaf_cache.leaf_id \in 1..Len(T.leaf_nodes)
            /\ ~T.leaf_nodes[T.leaf_cache.leaf_id].taken
            /\ leaf_in_range(T.leaf_nodes[T.leaf_cache.leaf_id], k)
         THEN T.leaf_cache.leaf_id ELSE None
    ELSE IF CacheItem_in_range(T.leaf_cache, k) THEN T.leaf_cache.leaf_id ELSE None


\* --------------------------------------------------------------- BPlusTree
\* the descent loop of insert_inner / remove_inner / find_descend: the
\* (inner id, child slot) pairs from node_id down to the leaf, and the leaf
RECURSIVE descend(_, _, _, _)
descend(T, node_id, k, stack) ==
    IF node_id.kind = "Leaf"
    THEN [stack |-> stack, leaf_id |-> node_id.id]
    ELSE LET lc == locate_child(T.inner_nodes[node_id.id], k)
         IN  descend(T, lc.child_id, k, Append(stack, <<node_id.id, lc.idx>>))

\* the result of a step of insert: res is Inserted, Updated or Split
InsRes(T, res, v, key, child) == [T |-> T, res |-> res, v |-> v, key |-> key, child |-> child]

\* the IsFull arm of insert_leaf without the fix of the successor's prev
insert_leaf_split_keeps_prev(T, id, k, insert_idx, right_id, sp) ==
    InsRes(cache_leaf([put_leaf(T, id, sp.self) EXCEPT !.leaf_nodes = Append(@, sp.new)],
                      IF insert_idx >= T.leaf_n \div 2 THEN right_id ELSE id),
           "Split", None, sp.new.slot_key[1], LeafId(right_id))

\* the IsFull arm of insert_leaf caching the original leaf whatever the slot
insert_leaf_split_caches_origin(T, id, k, insert_idx, right_id, sp) ==
    LET slot_key == sp.new.slot_key[1]
        T1 == [put_leaf(T, id, sp.self) EXCEPT !.leaf_nodes = Append(@, sp.new)]
        T2 == IF sp.new.next # None
              THEN put_leaf(T1, sp.new.next, [T1.leaf_nodes[sp.new.next] EXCEPT !.prev = right_id])
              ELSE T1
    IN  InsRes(cache_leaf(T2, id), "Split", None, slot_key, LeafId(right_id))

\* the IsFull arm of BPlusTree::insert_leaf: sp is what split_new_leaf made
\* of the leaf id, right_id the id the store gives the new leaf
insert_leaf_split(T, id, k, insert_idx, right_id, sp) ==
    LET slot_key == sp.new.slot_key[1]
        T1 == [put_leaf(T, id, sp.self) EXCEPT !.leaf_nodes = Append(@, sp.new)]
        T2 == IF sp.new.next # None
              THEN put_leaf(T1, sp.new.next, [T1.leaf_nodes[sp.new.next] EXCEPT !.prev = right_id])
              ELSE T1
        updated_id == IF T.variant = "store"
                      THEN (IF insert_idx >= T.leaf_n \div 2 THEN right_id ELSE id)
                      ELSE (IF k >= slot_key THEN right_id ELSE id)
    IN  InsRes(cache_leaf(T2, updated_id), "Split", None, slot_key, LeafId(right_id))

\* the match of BPlusTree::insert_leaf on u, the result of try_upsert
insert_leaf_upserted(T, id, k, v, u) ==
    CASE u.res = "Inserted" ->
            InsRes(cache_leaf(put_leaf(T, id, u.leaf), id), "Inserted", None, None, None)
      [] u.res = "Updated" ->
            InsRes(put_leaf(T, id, u.leaf), "Updated", u.v, None, None)
      [] u.res = "IsFull" ->
            insert_leaf_split(T, id, k, u.idx, Len(T.leaf_nodes) + 1,
                              split_new_leaf(T.leaf_nodes[id], u.idx, k, v,
                                             Len(T.leaf_nodes) + 1, id, T.leaf_n))

\* BPlusTree::insert_leaf
insert_leaf(T, id, k, v) ==
    insert_leaf_upserted(T, id, k, v, try_upsert(T.leaf_nodes[id], k, v, T.leaf_n))

\* the propagation loop registering a split child at slot 0 of a parent
\* that is not full
RECURSIVE insert_propagate_at_front(_, _)
insert_propagate_at_front(r, stack) ==
    IF r.res # "Split" \/ stack = <<>>
    THEN r
    ELSE LET id == stack[Len(stack)][1]
             child_idx == stack[Len(stack)][2]
             inner_node == r.T.inner_nodes[id]
             sp == inner_split(inner_node, child_idx, r.key, r.child, r.T.inner_n)
         IN  IF ~inner_is_full(inner_node, r.T.inner_n)
             THEN InsRes(put_inner(r.T, id, insert_at(inner_node, 0, r.key, r.child)),
                         "Inserted", None, None, None)
             ELSE insert_propagate_at_front(
                    InsRes(add_inner(put_inner(r.T, id, sp.self), sp.new), "Split", None,
                           sp.key, InnerId(Len(r.T.inner_nodes) + 1)),
                    SubSeq(stack, 1, Len(stack) - 1))

\* the propagation loop of BPlusTree::insert_inner: r is the result below,
\* stack the (inner id, child slot) pairs still above it
RECURSIVE insert_propagate(_, _)
insert_propagate(r, stack) ==
    IF r.res # "Split" \/ stack = <<>>
    THEN r
    ELSE LET id == stack[Len(stack)][1]
             child_idx == stack[Len(stack)][2]
             inner_node == r.T.inner_nodes[id]
             sp == inner_split(inner_node, child_idx, r.key, r.child, r.T.inner_n)
         IN  IF ~inner_is_full(inner_node, r.T.inner_n)
             THEN InsRes(put_inner(r.T, id, insert_at(inner_node, child_idx, r.key, r.child)),
                         "Inserted", None, None, None)
             ELSE insert_propagate(
                    InsRes(add_inner(put_inner(r.T, id, sp.self), sp.new), "Split", None,
                           sp.key, InnerId(Len(r.T.inner_nodes) + 1)),
                    SubSeq(stack, 1, Len(stack) - 1))

\* BPlusTree::descend_insert with BPlusTree::insert_inner
descend_insert(T, node_id, k, v) ==
    LET d == descend(T, node_id, k, <<>>)
    IN  insert_propagate(insert_leaf(T, d.leaf_id, k, v), d.stack)

\* what a public call hands back: the tree, the returned value and the path
Ret(T, ret, path, res) == [T |-> T, ret |-> ret, path |-> path, res |-> res]

\* the cache-hit arm of BPlusTree::insert: u is the result of try_upsert on
\* the cached leaf
insert_cached(T, leaf_id, u) ==
    CASE u.res = "Inserted" ->
            Ret(refresh_cache([put_leaf(T, leaf_id, u.leaf) EXCEPT !.len = @ + 1],
                              leaf_id), None, "fast", "Inserted")
      [] u.res = "Updated" ->
            Ret(put_leaf(T, leaf_id, u.leaf), u.v, "fast", "Updated")
      [] u.res = "IsFull" ->
            Ret(set_panic(T, "insert: unreachable IsFull"), None, "fast", "Panic")

\* the tail of insert putting the new node left of the old root
insert_descended_swaps_children(T, r) ==
    LET grown == [add_inner(r.T, inner_new(<<r.key>>, <<r.child, T.root>>))
                     EXCEPT !.root = InnerId(Len(r.T.inner_nodes) + 1)]
        T3 == IF r.res = "Split" THEN grown ELSE r.T
    IN  IF r.res = "Updated"
        THEN Ret(T3, r.v, "descent", "Updated")
        ELSE Ret([T3 EXCEPT !.len = @ + 1], None, "descent", r.res)

\* the tail of BPlusTree::insert on r, the result of descend_insert: a split
\* of the root makes a new root, and a new key is counted
insert_descended(T, r) ==
    LET grown == [add_inner(r.T, inner_new(<<r.key>>, <<T.root, r.child>>))
                     EXCEPT !.root = InnerId(Len(r.T.inner_nodes) + 1)]
        T3 == IF r.res = "Split" THEN grown ELSE r.T
    IN  IF r.res = "Updated"
        THEN Ret(T3, r.v, "descent", "Updated")
        ELSE Ret([T3 EXCEPT !.len = @ + 1], None, "descent", r.res)

\* insert counting an update on the fast path as a new entry
insert_counts_update(T, k, v) ==
    LET leaf_id == try_cache(T, k)
        hit == leaf_id # None /\ leaf_id \in 1..Len(T.leaf_nodes)
        u == try_upsert(T.leaf_nodes[leaf_id], k, v, T.leaf_n)
    IN  IF hit /\ ~leaf_is_full(T.leaf_nodes[leaf_id], T.leaf_n)
        THEN Ret(refresh_cache([put_leaf(T, leaf_id, u.leaf) EXCEPT !.len = @ + 1],
                               leaf_id), u.v, "fast", u.res)
        ELSE insert_descended(T, descend_insert(T, T.root, k, v))

\* BPlusTree::insert
insert(T, k, v) ==
    LET leaf_id == try_cache(T, k)
        hit == leaf_id # None /\ leaf_id \in 1..Len(T.leaf_nodes)
    IN  IF hit /\ T.leaf_nodes[leaf_id].taken
        THEN Ret(set_panic(T, "get_mut_leaf"), None, "fast", "Panic")
        ELSE IF hit /\ ~leaf_is_full(T.leaf_nodes[leaf_id], T.leaf_n)
        THEN insert_cached(T, leaf_id, try_upsert(T.leaf_nodes[leaf_id], k, v, T.leaf_n))
        ELSE insert_descended(T, descend_insert(T, T.root, k, v))

\* BPlusTree::get and get_mut: find_in_leaf on a cache hit, else
\* find_descend with find_in_leaf_and_cache_it
get(T, k) ==
    LET leaf_id == try_cache(T, k)
        d == descend(T, T.root, k, <<>>)
    IN  IF leaf_id # None
        THEN IF leaf_id \notin 1..Len(T.leaf_nodes) \/ T.leaf_nodes[leaf_id].taken
             THEN Ret(set_panic(T, "get_leaf"), None, "fast", "Panic")
             ELSE Ret(T, locate_slot_with_value(T.leaf_nodes[leaf_id], k).v, "fast", "Get")
        ELSE Ret(cache_leaf(T, d.leaf_id),
                 locate_slot_with_value(T.leaf_nodes[d.leaf_id], k).v, "descent", "Get")

\* BPlusTree::first_leaf / last_leaf style walk: always child 0, or always the last child
RECURSIVE edge_leaf(_, _, _)
edge_leaf(T, node_id, first) ==
    IF node_id.kind = "Leaf" THEN node_id.id
    ELSE LET node == T.inner_nodes[node_id.id]
         IN  edge_leaf(T, child_at(node, IF first THEN 0 ELSE inner_len(node)), first)

\* first without the is_empty test
first_without_is_empty(T) ==
    LET leaf == T.leaf_nodes[edge_leaf(T, T.root, TRUE)]
    IN  IF leaf_len(leaf) = 0
        THEN Ret(set_panic(T, "first: data_at on empty leaf"), None, "descent", "Panic")
        ELSE Ret(T, <<leaf.slot_key[1], leaf.slot_value[1]>>, "descent", "Some")

\* BPlusTree::first: None when empty, else data_at(0) of the leftmost leaf
first(T) ==
    LET leaf == T.leaf_nodes[edge_leaf(T, T.root, TRUE)]
    IN  IF T.len = 0 THEN Ret(T, None, "descent", "None")
        ELSE IF leaf_len(leaf) = 0
        THEN Ret(set_panic(T, "first: data_at on empty leaf"), None, "descent", "Panic")
        ELSE Ret(T, <<leaf.slot_key[1], leaf.slot_value[1]>>, "descent", "Some")

\* BPlusTree::last: None when empty, else data_at(len - 1) of the rightmost leaf
last_kv(T) ==
    LET leaf == T.leaf_nodes[edge_leaf(T, T.root, FALSE)]
    IN  IF T.len = 0 THEN Ret(T, None, "descent", "None")
        ELSE IF leaf_len(leaf) = 0
        THEN Ret(set_panic(T, "last: data_at on empty leaf"), None, "descent", "Panic")
        ELSE Ret(T, <<leaf.slot_key[leaf_len(leaf)], leaf.slot_value[leaf_len(leaf)]>>,
                 "descent", "Some")


\* the result of a step of remove: res is None, Done or InnerUnderSize;
\* fix is the FixAction taken at the leaf level, if any
DelRes(T, res, kv, fix) == [T |-> T, res |-> res, kv |-> kv, fix |-> fix]

\* rotate_right_for_leaf that leaves the parent's separator as it was
rotate_right_for_leaf_keeps_key(T, node_id, slot, delete_idx) ==
    LET node == T.inner_nodes[node_id]
        left_id == child_at(node, slot).id
        right_id == child_at(node, slot + 1).id
        p == leaf_pop(T.leaf_nodes[left_id])
        d == delete_with_push_front(T.leaf_nodes[right_id], delete_idx, p.kv)
    IN  DelRes(cache_leaf(put_leaf(put_leaf(T, left_id, p.leaf), right_id, d.leaf), right_id),
               "Done", d.kv, "RotateRight")

\* BPlusTree::rotate_right_for_leaf
rotate_right_for_leaf(T, node_id, slot, delete_idx) ==
    LET node == T.inner_nodes[node_id]
        left_id == child_at(node, slot).id
        right_id == child_at(node, slot + 1).id
        left == T.leaf_nodes[left_id]
        p == leaf_pop(left)
        d == delete_with_push_front(T.leaf_nodes[right_id], delete_idx, p.kv)
        T1 == put_leaf(put_leaf(T, left_id, p.leaf), right_id, d.leaf)
        T2 == cache_leaf(T1, right_id)
    IN  IF ~leaf_able_to_lend(left, T.leaf_n)
        THEN DelRes(set_panic(T, "rotate_right_for_leaf: able_to_lend"), "Done",
                    <<None, None>>, "RotateRight")
        ELSE DelRes(put_inner(T2, node_id, set_key(node, slot, p.kv[1])), "Done", d.kv,
                    "RotateRight")

\* rotate_left_for_leaf that leaves the leaf cache as it was
rotate_left_for_leaf_keeps_cache(T, node_id, slot, delete_idx) ==
    LET parent == T.inner_nodes[node_id]
        left_id == child_at(parent, slot).id
        right_id == child_at(parent, slot + 1).id
        p == leaf_pop_front(T.leaf_nodes[right_id])
        d == delete_with_push(T.leaf_nodes[left_id], delete_idx, p.kv)
        T1 == put_leaf(put_leaf(T, right_id, p.leaf), left_id, d.leaf)
    IN  DelRes(put_inner(T1, node_id, set_key(parent, slot, p.leaf.slot_key[1])),
               "Done", d.kv, "RotateLeft")

\* rotate_left_for_leaf making the moved key the separator
rotate_left_for_leaf_promotes_moved(T, node_id, slot, delete_idx) ==
    LET parent == T.inner_nodes[node_id]
        left_id == child_at(parent, slot).id
        right_id == child_at(parent, slot + 1).id
        right == T.leaf_nodes[right_id]
        p == leaf_pop_front(right)
        d == delete_with_push(T.leaf_nodes[left_id], delete_idx, p.kv)
        T1 == put_leaf(put_leaf(T, right_id, p.leaf), left_id, d.leaf)
        T2 == put_inner(T1, node_id, set_key(parent, slot, p.kv[1]))
    IN  IF ~leaf_able_to_lend(right, T.leaf_n)
        THEN DelRes(set_panic(T, "rotate_left_for_leaf: able_to_lend"), "Done",
                    <<None, None>>, "RotateLeft")
        ELSE DelRes(cache_leaf(T2, left_id), "Done", d.kv, "RotateLeft")

\* BPlusTree::rotate_left_for_leaf
rotate_left_for_leaf(T, node_id, slot, delete_idx) ==
    LET parent == T.inner_nodes[node_id]
        left_id == child_at(parent, slot).id
        right_id == child_at(parent, slot + 1).id
        right == T.leaf_nodes[right_id]
        p == leaf_pop_front(right)
        new_slot_key == p.leaf.slot_key[1]
        d == delete_with_push(T.leaf_nodes[left_id], delete_idx, p.kv)
        T1 == put_leaf(put_leaf(T, right_id, p.leaf), left_id, d.leaf)
        T2 == put_inner(T1, node_id, set_key(parent, slot, new_slot_key))
    IN  IF ~leaf_able_to_lend(right, T.leaf_n)
        THEN DelRes(set_panic(T, "rotate_left_for_leaf: able_to_lend"), "Done",
                    <<None, None>>, "RotateLeft")
        ELSE DelRes(cache_leaf(T2, left_id), "Done", d.kv, "RotateLeft")

\* the tail shared by both leaf merges: fix the successor's prev, drop the
\* parent's separator and right child, cache the surviving leaf
merge_leaf_finish(T, node_id, slot, left_id, kv, fix) ==
    LET parent == T.inner_nodes[node_id]
        next == T.leaf_nodes[left_id].next
        T1 == IF next # None
              THEN put_leaf(T, next, [T.leaf_nodes[next] EXCEPT !.prev = left_id])
              ELSE T
        rm == remove_slot_with_right(parent, slot, T.inner_n)
        T2 == put_inner(T1, node_id, rm.node)
    IN  DelRes(cache_leaf(T2, left_id),
               IF rm.res = "Done" THEN "Done" ELSE "InnerUnderSize", kv, fix)

\* BPlusTree::merge_leaf_node_left: the deleted item is in the right leaf
merge_leaf_node_left(T, node_id, slot, delete_idx) ==
    LET parent == T.inner_nodes[node_id]
        left_leaf_id == child_at(parent, slot).id
        right_leaf_id == child_at(parent, slot + 1).id
        right == T.leaf_nodes[right_leaf_id]
        m == merge_right_delete_first(T.leaf_nodes[left_leaf_id], delete_idx, right)
        T1 == put_leaf(take_leaf(T, right_leaf_id), left_leaf_id, m.leaf)
    IN  merge_leaf_finish(T1, node_id, slot, left_leaf_id, m.kv, "MergeLeft")

\* merge_leaf_node_with_right leaving the absorbed leaf in the store
merge_leaf_node_with_right_keeps_right(T, node_id, slot, delete_idx) ==
    LET parent == T.inner_nodes[node_id]
        left_leaf_id == child_at(parent, slot).id
        right_leaf_id == child_at(parent, slot + 1).id
        right == T.leaf_nodes[right_leaf_id]
        d == delete_at(T.leaf_nodes[left_leaf_id], delete_idx)
        T1 == put_leaf(T, left_leaf_id, merge_right(d.leaf, right))
    IN  merge_leaf_finish(T1, node_id, slot, left_leaf_id, d.kv, "MergeRight")

\* BPlusTree::merge_leaf_node_with_right: the deleted item is in the left leaf
merge_leaf_node_with_right(T, node_id, slot, delete_idx) ==
    LET parent == T.inner_nodes[node_id]
        left_leaf_id == child_at(parent, slot).id
        right_leaf_id == child_at(parent, slot + 1).id
        right == T.leaf_nodes[right_leaf_id]
        d == delete_at(T.leaf_nodes[left_leaf_id], delete_idx)
        T1 == put_leaf(take_leaf(T, right_leaf_id), left_leaf_id, merge_right(d.leaf, right))
    IN  merge_leaf_finish(T1, node_id, slot, left_leaf_id, d.kv, "MergeRight")

\* a FixAction that borrows from the previous leaf whether or not it can lend
fix_action_always_borrows(has_prev, p_lend, p_len, has_next, n_lend, n_len) ==
    CASE has_prev -> "RotateRight"
      [] ~has_prev /\ has_next -> IF n_lend THEN "RotateLeft" ELSE "MergeRight"
      [] OTHER -> "unreachable"

\* a FixAction that borrows from the smaller of two leaves that can lend
fix_action_borrows_from_smaller(has_prev, p_lend, p_len, has_next, n_lend, n_len) ==
    CASE has_prev /\ has_next ->
            IF p_lend
            THEN (IF n_lend THEN (IF p_len < n_len THEN "RotateRight" ELSE "RotateLeft")
                  ELSE "RotateRight")
            ELSE (IF n_lend THEN "RotateLeft" ELSE "MergeLeft")
      [] has_prev /\ ~has_next -> IF p_lend THEN "RotateRight" ELSE "MergeLeft"
      [] ~has_prev /\ has_next -> IF n_lend THEN "RotateLeft" ELSE "MergeRight"
      [] OTHER -> "unreachable"

\* the FixAction chosen in BPlusTree::handle_leaf_under_size
fix_action(has_prev, p_lend, p_len, has_next, n_lend, n_len) ==
    CASE has_prev /\ has_next ->
            IF p_lend
            THEN (IF n_lend THEN (IF p_len > n_len THEN "RotateRight" ELSE "RotateLeft")
                  ELSE "RotateRight")
            ELSE (IF n_lend THEN "RotateLeft" ELSE "MergeLeft")
      [] has_prev /\ ~has_next -> IF p_lend THEN "RotateRight" ELSE "MergeLeft"
      [] ~has_prev /\ has_next -> IF n_lend THEN "RotateLeft" ELSE "MergeRight"
      [] OTHER -> "unreachable"

\* BPlusTree::handle_leaf_under_size
handle_leaf_under_size(T, node_id, child_idx, key_idx_in_child) ==
    LET node == T.inner_nodes[node_id]
        has_prev == child_idx > 0
        has_next == child_idx < inner_len(node)
        prev_id == IF has_prev THEN child_at(node, child_idx - 1) ELSE LeafId(None)
        next_id == IF has_next THEN child_at(node, child_idx + 1) ELSE LeafId(None)
        p == IF has_prev THEN T.leaf_nodes[prev_id.id] ELSE leaf_new
        n == IF has_next THEN T.leaf_nodes[next_id.id] ELSE leaf_new
        action == fix_action(has_prev, leaf_able_to_lend(p, T.leaf_n), leaf_len(p),
                             has_next, leaf_able_to_lend(n, T.leaf_n), leaf_len(n))
    IN  IF prev_id.kind # "Leaf" \/ next_id.kind # "Leaf"
        THEN DelRes(set_panic(T, "leaf_id_unchecked on an inner id"), "Done",
                    <<None, None>>, "unreachable")
        ELSE IF (has_prev /\ p.taken) \/ (has_next /\ n.taken)
        THEN DelRes(set_panic(T, "get_leaf"), "Done", <<None, None>>, "unreachable")
        ELSE CASE action = "RotateRight" ->
                    rotate_right_for_leaf(T, node_id, child_idx - 1, key_idx_in_child)
               [] action = "RotateLeft" ->
                    rotate_left_for_leaf(T, node_id, child_idx, key_idx_in_child)
               [] action = "MergeLeft" ->
                    merge_leaf_node_left(T, node_id, child_idx - 1, key_idx_in_child)
               [] action = "MergeRight" ->
                    merge_leaf_node_with_right(T, node_id, child_idx, key_idx_in_child)
               [] OTHER ->
                    DelRes(set_panic(T, "handle_leaf_under_size: unreachable"), "Done",
                           <<None, None>>, "unreachable")

\* BPlusTree::try_rotate_right_for_inner_node; ok is FALSE for None
try_rotate_right_for_inner_node(T, node_id, slot) ==
    LET node == T.inner_nodes[node_id]
        right_child_id == child_at(node, slot + 1)
        left_child_id == child_at(node, slot)
        prev_node == T.inner_nodes[left_child_id.id]
        p == inner_pop(prev_node)
        slot_key == node.slot_key[slot + 1]
        right == T.inner_nodes[right_child_id.id]
        T1 == put_inner(T, left_child_id.id, p.node)
        T2 == put_inner(T1, node_id, set_key(node, slot, p.k))
        T3 == put_inner(T2, right_child_id.id, inner_push_front(right, slot_key, p.c))
    IN  IF right_child_id.kind # "Inner" \/ left_child_id.kind # "Inner"
        THEN [ok |-> TRUE, T |-> set_panic(T, "inner_id_unchecked on a leaf id")]
        ELSE IF inner_able_to_lend(prev_node, T.inner_n)
        THEN [ok |-> TRUE, T |-> T3]
        ELSE [ok |-> FALSE, T |-> T]

\* try_rotate_left_for_inner_node that hands the borrowed key to the left
\* child and leaves the parent's separator as it was
try_rotate_left_for_inner_node_keeps_key(T, node_id, slot) ==
    LET node == T.inner_nodes[node_id]
        right_child_id == child_at(node, slot + 1)
        left_child_id == child_at(node, slot)
        right == T.inner_nodes[right_child_id.id]
        p == inner_pop_front(right)
        left == T.inner_nodes[left_child_id.id]
        T1 == put_inner(T, right_child_id.id, p.node)
    IN  IF inner_able_to_lend(right, T.inner_n)
        THEN [ok |-> TRUE, T |-> put_inner(T1, left_child_id.id, inner_push(left, p.k, p.c))]
        ELSE [ok |-> FALSE, T |-> T]

\* BPlusTree::try_rotate_left_for_inner_node
try_rotate_left_for_inner_node(T, node_id, slot) ==
    LET node == T.inner_nodes[node_id]
        right_child_id == child_at(node, slot + 1)
        left_child_id == child_at(node, slot)
        right == T.inner_nodes[right_child_id.id]
        p == inner_pop_front(right)
        slot_key == node.slot_key[slot + 1]
        left == T.inner_nodes[left_child_id.id]
        T1 == put_inner(T, right_child_id.id, p.node)
        T2 == put_inner(T1, node_id, set_key(node, slot, p.k))
        T3 == put_inner(T2, left_child_id.id, inner_push(left, slot_key, p.c))
    IN  IF right_child_id.kind # "Inner" \/ left_child_id.kind # "Inner"
        THEN [ok |-> TRUE, T |-> set_panic(T, "inner_id_unchecked on a leaf id")]
        ELSE IF inner_able_to_lend(right, T.inner_n)
        THEN [ok |-> TRUE, T |-> T3]
        ELSE [ok |-> FALSE, T |-> T]

\* merge_inner_node leaving the absorbed right child in the store
merge_inner_node_keeps_right(T, node_id, slot) ==
    LET node == T.inner_nodes[node_id]
        left_child_id == child_at(node, slot)
        right_child_id == child_at(node, slot + 1)
        rm == remove_slot_with_right(node, slot, T.inner_n)
        right == T.inner_nodes[right_child_id.id]
        left == T.inner_nodes[left_child_id.id]
        T1 == put_inner(T, node_id, rm.node)
        T3 == put_inner(T1, left_child_id.id, merge_next(left, rm.key, right))
    IN  [res |-> rm.res, T |-> T3]

\* BPlusTree::merge_inner_node
merge_inner_node(T, node_id, slot) ==
    LET node == T.inner_nodes[node_id]
        left_child_id == child_at(node, slot)
        right_child_id == child_at(node, slot + 1)
        rm == remove_slot_with_right(node, slot, T.inner_n)
        right == T.inner_nodes[right_child_id.id]
        left == T.inner_nodes[left_child_id.id]
        T1 == put_inner(T, node_id, rm.node)
        T2 == take_inner(T1, right_child_id.id)
        T3 == put_inner(T2, left_child_id.id, merge_next(left, rm.key, right))
    IN  IF ~(slot < inner_len(node))
        THEN [res |-> "Done", T |-> set_panic(T, "merge_inner_node: slot < len")]
        ELSE IF left_child_id.kind # "Inner" \/ right_child_id.kind # "Inner"
        THEN [res |-> "Done", T |-> set_panic(T, "inner_id_unchecked on a leaf id")]
        ELSE [res |-> rm.res, T |-> T3]

\* handle_inner_under_size that leaves the under-size child as it is
handle_inner_under_size_gives_up(T, node_id, child_idx, deleted_item, fix) ==
    DelRes(T, "Done", deleted_item, fix)

\* handle_inner_under_size trying the right sibling before the left one
handle_inner_under_size_right_first(T, node_id, child_idx, deleted_item, fix) ==
    LET node == T.inner_nodes[node_id]
        rr == try_rotate_right_for_inner_node(T, node_id, child_idx - 1)
        rl == try_rotate_left_for_inner_node(T, node_id, child_idx)
        merge_slot == IF child_idx > 0 THEN child_idx - 1 ELSE child_idx
        m == merge_inner_node(T, node_id, merge_slot)
    IN  IF child_idx < inner_len(node) /\ rl.ok
        THEN DelRes(rl.T, "Done", deleted_item, fix)
        ELSE IF child_idx > 0 /\ rr.ok
        THEN DelRes(rr.T, "Done", deleted_item, fix)
        ELSE DelRes(m.T, IF m.res = "Done" THEN "Done" ELSE "InnerUnderSize",
                    deleted_item, fix)

\* BPlusTree::handle_inner_under_size
handle_inner_under_size(T, node_id, child_idx, deleted_item, fix) ==
    LET node == T.inner_nodes[node_id]
        rr == try_rotate_right_for_inner_node(T, node_id, child_idx - 1)
        rl == try_rotate_left_for_inner_node(T, node_id, child_idx)
        merge_slot == IF child_idx > 0 THEN child_idx - 1 ELSE child_idx
        m == merge_inner_node(T, node_id, merge_slot)
    IN  IF child_idx > 0 /\ rr.ok
        THEN DelRes(rr.T, "Done", deleted_item, fix)
        ELSE IF child_idx < inner_len(node) /\ rl.ok
        THEN DelRes(rl.T, "Done", deleted_item, fix)
        ELSE DelRes(m.T, IF m.res = "Done" THEN "Done" ELSE "InnerUnderSize",
                    deleted_item, fix)

\* the propagation loop of BPlusTree::remove_inner
RECURSIVE remove_propagate(_, _)
remove_propagate(r, stack) ==
    IF r.res # "InnerUnderSize" \/ stack = <<>>
    THEN r
    ELSE remove_propagate(
            handle_inner_under_size(r.T, stack[Len(stack)][1], stack[Len(stack)][2],
                                    r.kv, r.fix),
            SubSeq(stack, 1, Len(stack) - 1))

\* BPlusTree::remove_inner
remove_inner(T, node_id, k) ==
    LET d == descend(T, InnerId(node_id), k, <<>>)
        parent_id == d.stack[Len(d.stack)][1]
        child_idx == d.stack[Len(d.stack)][2]
        del == try_delete(T.leaf_nodes[d.leaf_id], k, T.leaf_n)
    IN  CASE del.res = "Done" -> DelRes(put_leaf(T, d.leaf_id, del.leaf), "Done", del.kv, "none")
          [] del.res = "NotFound" -> DelRes(T, "None", <<None, None>>, "none")
          [] del.res = "UnderSize" ->
                remove_propagate(handle_leaf_under_size(T, parent_id, child_idx, del.idx),
                                 SubSeq(d.stack, 1, Len(d.stack) - 1))

\* the tail of remove that keeps an emptied inner root
remove_descended_keeps_root(T, ri) ==
    IF ri.res = "None"
    THEN Ret(ri.T, None, "descent", "NotFound")
    ELSE Ret([ri.T EXCEPT !.len = @ - 1], ri.kv[2], "descent",
             IF ri.fix = "none" THEN "Done" ELSE ri.fix)

\* the tail of remove counting an entry off whether or not one was found
remove_descended_counts_absent(T, ri) ==
    Ret([ri.T EXCEPT !.len = IF @ > 0 THEN @ - 1 ELSE 0,
                     !.root = IF ri.res = "InnerUnderSize"
                                 /\ inner_is_empty(ri.T.inner_nodes[T.root.id])
                              THEN child_at(ri.T.inner_nodes[T.root.id], 0) ELSE @],
        ri.kv[2], "descent", IF ri.res = "None" THEN "NotFound" ELSE "Done")

\* the tail of remove giving the root up on every InnerUnderSize
remove_descended_shrinks_always(T, ri) ==
    LET root_node == ri.T.inner_nodes[T.root.id]
        shrunk == IF ri.res = "InnerUnderSize"
                  THEN [ri.T EXCEPT !.root = child_at(root_node, 0)]
                  ELSE ri.T
    IN  IF ri.res = "None"
        THEN Ret(ri.T, None, "descent", "NotFound")
        ELSE Ret([shrunk EXCEPT !.len = @ - 1], ri.kv[2], "descent",
                 IF ri.fix = "none" THEN "Done" ELSE ri.fix)

\* the tail of BPlusTree::remove on ri, the result of remove_inner on the
\* root: an emptied root gives way to its only child, and the entry is
\* counted off
remove_descended(T, ri) ==
    LET root_node == ri.T.inner_nodes[T.root.id]
        shrunk == IF ri.res = "InnerUnderSize" /\ inner_is_empty(root_node)
                  THEN [ri.T EXCEPT !.root = child_at(root_node, 0)]
                  ELSE ri.T
    IN  IF ri.res = "None"
        THEN Ret(ri.T, None, "descent", "NotFound")
        ELSE Ret([shrunk EXCEPT !.len = @ - 1], ri.kv[2], "descent",
                 IF ri.fix = "none" THEN "Done" ELSE ri.fix)

\* the cache-hit arm of BPlusTree::remove: fd is the result of try_delete on
\* the cached leaf
remove_cached(T, cache_leaf_id, fd) ==
    CASE fd.res = "Done" ->
            Ret(refresh_cache([put_leaf(T, cache_leaf_id, fd.leaf) EXCEPT !.len = @ - 1],
                              cache_leaf_id), fd.kv[2], "fast", "Done")
      [] fd.res = "NotFound" -> Ret(T, None, "fast", "NotFound")
      [] fd.res = "UnderSize" ->
            Ret(set_panic(T, "remove: unreachable UnderSize"), None, "fast", "Panic")

\* the root-leaf arm of BPlusTree::remove: rl is the result of try_delete on
\* the root leaf, which may go under size
remove_root_leaf(T, rl) ==
    LET rd == delete_at(T.leaf_nodes[T.root.id], rl.idx)
    IN  CASE rl.res = "Done" ->
                Ret([put_leaf(T, T.root.id, rl.leaf) EXCEPT !.len = @ - 1], rl.kv[2],
                    "descent", "Done")
          [] rl.res = "NotFound" -> Ret(T, None, "descent", "NotFound")
          [] rl.res = "UnderSize" ->
                Ret([put_leaf(T, T.root.id, rd.leaf) EXCEPT !.len = @ - 1], rd.kv[2],
                    "descent", "RootLeaf")

\* BPlusTree::remove
remove(T, k) ==
    LET cache_leaf_id == try_cache(T, k)
        hit == cache_leaf_id # None /\ cache_leaf_id \in 1..Len(T.leaf_nodes)
    IN  IF hit /\ T.leaf_nodes[cache_leaf_id].taken
        THEN Ret(set_panic(T, "get_mut_leaf"), None, "fast", "Panic")
        ELSE IF hit /\ leaf_able_to_lend(T.leaf_nodes[cache_leaf_id], T.leaf_n)
        THEN remove_cached(T, cache_leaf_id,
                           try_delete(T.leaf_nodes[cache_leaf_id], k, T.leaf_n))
        ELSE IF T.root.kind = "Inner"
        THEN remove_descended(T, remove_inner(T, T.root.id, k))
        ELSE remove_root_leaf(T, try_delete(T.leaf_nodes[T.root.id], k, T.leaf_n))

\* BPlusTree::new on a fresh node store: one empty leaf is the root
new_tree(in, ln, var) ==
    [root |-> LeafId(1), len |-> 0, leaf_nodes |-> <<leaf_new>>, inner_nodes |-> <<>>,
     leaf_cache |-> NoCache, panic |-> "none", inner_n |-> in, leaf_n |-> ln,
     variant |-> var]

\* clear putting the new tree in place and keeping the old leaf cache
clear_keeps_cache(T) ==
    Ret([new_tree(T.inner_n, T.leaf_n, T.variant) EXCEPT !.leaf_cache = T.leaf_cache],
        None, "descent", "Cleared")

\* BPlusTree::clear: replace the tree by a new one on S::default()
clear(T) == Ret(new_tree(T.inner_n, T.leaf_n, T.variant), None, "descent", "Cleared")


\* ------------------------------------------------------------ BPlusTreeSet
\* the value () of the BPlusTree<NodeStoreVec<K, (), ..>> the set wraps
Unit == 1

\* what a call of the set hands back: the tree, and is_none() or is_some()
\* of what the call of the tree returned
set_result(r, is_none) ==
    [T |-> r.T, ret |-> IF is_none THEN r.ret = None ELSE r.ret # None]

\* insert answering true when the key was already there
set_insert_is_some(T, k) == set_result(insert(T, k, Unit), FALSE)

\* BPlusTreeSet::insert: self.tree.insert(k.into(), ()).is_none()
set_insert(T, k) == set_result(insert(T, k, Unit), TRUE)

\* BPlusTreeSet::remove: self.tree.remove(k).is_some()
set_remove(T, k) == set_result(remove(T, k), FALSE)

\* BPlusTreeSet::contains: self.tree.get(k).is_some()
set_contains(T, k) == set_result(get(T, k), FALSE)

\* BPlusTreeSet::len: self.tree.len()
set_len(T) == T.len


\* -------------------------------------------------------------- GroupCount
\* FromRef::from_ref: the group of a key, the Half of test_group_count
from_ref(k) == k \div 2

\* GroupCount::Zero, ::One(g, c) and ::Multiple {min_group, max_group,
\* group_count}; One keeps its (g, c) in min_group
GroupCount_Zero ==
    [tag |-> "Zero", min_group |-> <<None, 0>>, max_group |-> <<None, 0>>, group_count |-> 0]

GroupCount_One(g, c) ==
    [tag |-> "One", min_group |-> <<g, c>>, max_group |-> <<g, c>>, group_count |-> 1]

GroupCount_Multiple(min_group, max_group, count) ==
    [tag |-> "Multiple", min_group |-> min_group, max_group |-> max_group,
     group_count |-> count]

\* GroupCount::group_count
group_count(a) ==
    CASE a.tag = "Zero" -> 0
      [] a.tag = "One" -> 1
      [] a.tag = "Multiple" -> a.group_count

\* GroupCount::is_zero
is_zero(a) == a.tag = "Zero"

\* merge_with adding the two group counts whatever the groups at the seam
merge_with_counts_seam_twice(l, r) ==
    CASE l.tag = "Zero" -> r
      [] l.tag # "Zero" /\ r.tag = "Zero" -> l
      [] l.tag = "One" /\ r.tag = "One" ->
            IF l.min_group[1] = r.min_group[1]
            THEN GroupCount_One(l.min_group[1], l.min_group[2] + r.min_group[2])
            ELSE GroupCount_Multiple(l.min_group, r.min_group, 2)
      [] l.tag = "One" /\ r.tag = "Multiple" ->
            IF l.min_group[1] = r.min_group[1]
            THEN GroupCount_Multiple(<<l.min_group[1], l.min_group[2] + r.min_group[2]>>,
                                     r.max_group, r.group_count)
            ELSE GroupCount_Multiple(l.min_group, r.max_group, r.group_count + 1)
      [] l.tag = "Multiple" /\ r.tag = "One" ->
            IF r.min_group[1] = l.max_group[1]
            THEN GroupCount_Multiple(l.min_group,
                                     <<l.max_group[1], l.max_group[2] + r.min_group[2]>>,
                                     l.group_count)
            ELSE GroupCount_Multiple(l.min_group, r.min_group, l.group_count + 1)
      [] l.tag = "Multiple" /\ r.tag = "Multiple" ->
            GroupCount_Multiple(l.min_group, r.max_group, l.group_count + r.group_count)

\* GroupCount::merge_with: self followed by right
merge_with(l, r) ==
    CASE l.tag = "Zero" -> r
      [] l.tag # "Zero" /\ r.tag = "Zero" -> l
      [] l.tag = "One" /\ r.tag = "One" ->
            IF l.min_group[1] = r.min_group[1]
            THEN GroupCount_One(l.min_group[1], l.min_group[2] + r.min_group[2])
            ELSE GroupCount_Multiple(l.min_group, r.min_group, 2)
      [] l.tag = "One" /\ r.tag = "Multiple" ->
            IF l.min_group[1] = r.min_group[1]
            THEN GroupCount_Multiple(<<l.min_group[1], l.min_group[2] + r.min_group[2]>>,
                                     r.max_group, r.group_count)
            ELSE GroupCount_Multiple(l.min_group, r.max_group, r.group_count + 1)
      [] l.tag = "Multiple" /\ r.tag = "One" ->
            IF r.min_group[1] = l.max_group[1]
            THEN GroupCount_Multiple(l.min_group,
                                     <<l.max_group[1], l.max_group[2] + r.min_group[2]>>,
                                     l.group_count)
            ELSE GroupCount_Multiple(l.min_group, r.min_group, l.group_count + 1)
      [] l.tag = "Multiple" /\ r.tag = "Multiple" ->
            GroupCount_Multiple(l.min_group, r.max_group,
                                IF l.max_group[1] = r.min_group[1]
                                THEN l.group_count + r.group_count - 1
                                ELSE l.group_count + r.group_count)

\* the body of the loop of from_leaf: st.at_last tells which of the two
\* counters last_group_item_count points at; a new group moves it to
\* last_group_count and leaves that counter as it is
from_leaf_step(st, group) ==
    IF st.last_group # group
    THEN [st EXCEPT !.group_count = @ + 1, !.at_last = TRUE, !.last_group = group]
    ELSE IF st.at_last
    THEN [st EXCEPT !.last_group_count = @ + 1]
    ELSE [st EXCEPT !.min_group_count = @ + 1]

RECURSIVE from_leaf_loop(_, _, _)
from_leaf_loop(keys, i, st) ==
    IF i > Len(keys) THEN st
    ELSE from_leaf_loop(keys, i + 1, from_leaf_step(st, from_ref(keys[i])))

\* the match on group_count that ends from_leaf
from_leaf_result(first_group, st) ==
    IF st.group_count = 1 THEN GroupCount_One(first_group, st.min_group_count)
    ELSE GroupCount_Multiple(<<first_group, st.min_group_count>>,
                             <<st.last_group, st.last_group_count>>, st.group_count)

\* Argument::from_leaf for GroupCount
from_leaf(keys) ==
    IF keys = <<>> THEN GroupCount_Zero
    ELSE from_leaf_result(from_ref(keys[1]),
             from_leaf_loop(keys, 2,
                 [group_count |-> 1, min_group_count |-> 1, last_group_count |-> 1,
                  last_group |-> from_ref(keys[1]), at_last |-> FALSE]))

\* Argument::from_inner for GroupCount: merge the children's values from Zero
RECURSIVE from_inner_fold(_, _, _)
from_inner_fold(arguments, i, accumulated) ==
    IF i > Len(arguments) THEN accumulated
    ELSE from_inner_fold(arguments, i + 1, merge_with(accumulated, arguments[i]))

\* from_inner leaving the first child out
from_inner_skips_first(arguments) == from_inner_fold(arguments, 2, GroupCount_Zero)

from_inner(arguments) == from_inner_fold(arguments, 1, GroupCount_Zero)

\* SearchArgument::locate_in_leaf: the slot of the offset-th key of the group
RECURSIVE locate_in_leaf_loop(_, _, _, _, _)
locate_in_leaf_loop(group, offset, keys, idx, in_group_offset) ==
    IF idx >= Len(keys) THEN [found |-> FALSE, idx |-> 0]
    ELSE IF from_ref(keys[idx + 1]) < group
    THEN locate_in_leaf_loop(group, offset, keys, idx + 1, in_group_offset)
    ELSE IF from_ref(keys[idx + 1]) = group
    THEN IF in_group_offset = offset THEN [found |-> TRUE, idx |-> idx]
         ELSE locate_in_leaf_loop(group, offset, keys, idx + 1, in_group_offset + 1)
    ELSE [found |-> FALSE, idx |-> 0]

locate_in_leaf(group, offset, keys) == locate_in_leaf_loop(group, offset, keys, 0, 0)

\* SearchArgument::locate_in_inner: the child to descend into, and the
\* query with the offset left once the members of the group in earlier
\* children are passed
RECURSIVE locate_in_inner_loop(_, _, _, _)
locate_in_inner_loop(group, offset, arguments, idx) ==
    IF idx >= Len(arguments) THEN [found |-> FALSE, idx |-> 0, group |-> group, offset |-> 0]
    ELSE LET a == arguments[idx + 1]
         IN  CASE a.tag = "Zero" -> locate_in_inner_loop(group, offset, arguments, idx + 1)
               [] a.tag = "One" ->
                    IF a.min_group[1] < group
                    THEN locate_in_inner_loop(group, offset, arguments, idx + 1)
                    ELSE IF a.min_group[1] = group
                    THEN IF a.min_group[2] > offset
                         THEN [found |-> TRUE, idx |-> idx, group |-> group, offset |-> offset]
                         ELSE locate_in_inner_loop(group, offset - a.min_group[2],
                                                   arguments, idx + 1)
                    ELSE [found |-> FALSE, idx |-> 0, group |-> group, offset |-> 0]
               [] a.tag = "Multiple" ->
                    IF a.max_group[1] < group
                    THEN locate_in_inner_loop(group, offset, arguments, idx + 1)
                    ELSE IF a.max_group[1] = group
                    THEN IF a.max_group[2] > offset
                         THEN [found |-> TRUE, idx |-> idx, group |-> group, offset |-> offset]
                         ELSE locate_in_inner_loop(group, offset - a.max_group[2],
                                                   arguments, idx + 1)
                    ELSE [found |-> TRUE, idx |-> idx, group |-> group, offset |-> offset]

locate_in_inner(group, offset, arguments) == locate_in_inner_loop(group, offset, arguments, 0)

\* no run of from_inner under way
NoFold == [chunks |-> <<>>, idx |-> 0, accumulated |-> GroupCount_Zero]

\* The tree that carries the values (the NodeStoreVec with an Argument) is
\* not among the sources; by section 4.7 every node's value is recomputed
\* from its children after each change, so it is the fold of its subtree.
RECURSIVE argument_of(_, _)
argument_of(T, node_id) ==
    IF node_id.kind = "Leaf" THEN from_leaf(T.leaf_nodes[node_id.id].slot_key)
    ELSE from_inner([i \in 1..Len(T.inner_nodes[node_id.id].child_id) |->
                        argument_of(T, T.inner_nodes[node_id.id].child_id[i])])

\* BPlusTree::root_argument
root_argument(T) == argument_of(T, T.root)

\* BPlusTree::get_by_argument: descend by locate_in_inner over the
\* children's values, then locate_in_leaf
RECURSIVE get_by_argument_from(_, _, _, _)
get_by_argument_step(T, node, r) ==
    IF ~r.found THEN [found |-> FALSE, k |-> None, v |-> None]
    ELSE get_by_argument_from(T, child_at(node, r.idx), r.group, r.offset)

get_by_argument_in_leaf(leaf, r) ==
    IF ~r.found THEN [found |-> FALSE, k |-> None, v |-> None]
    ELSE [found |-> TRUE, k |-> leaf.slot_key[r.idx + 1], v |-> leaf.slot_value[r.idx + 1]]

get_by_argument_from(T, node_id, group, offset) ==
    IF node_id.kind = "Leaf"
    THEN get_by_argument_in_leaf(T.leaf_nodes[node_id.id],
             locate_in_leaf(group, offset, T.leaf_nodes[node_id.id].slot_key))
    ELSE get_by_argument_step(T, T.inner_nodes[node_id.id],
             locate_in_inner(group, offset,
                 [i \in 1..Len(T.inner_nodes[node_id.id].child_id) |->
                     argument_of(T, T.inner_nodes[node_id.id].child_id[i])]))

get_by_argument(T, group, offset) == get_by_argument_from(T, T.root, group, offset)


\* ------------------------------------------------------------------ Cursor
\* Option<Cursor>::None
NoCursor == [some |-> FALSE, k |-> None, leaf_id |-> None, offset |-> 0]

\* Cursor::new: the key with the leaf and the slot it was seen at
Cursor_new(k, leaf_id, offset) ==
    [some |-> TRUE, k |-> k, leaf_id |-> leaf_id, offset |-> offset]

\* NodeStoreVec::try_get_leaf: no leaf for an id past the vector or for a
\* leaf of no entry, which is what take_leaf leaves behind
try_get_leaf(T, id) ==
    IF id \in 1..Len(T.leaf_nodes) /\ leaf_len(T.leaf_nodes[id]) # 0 THEN id ELSE None

\* locate_leaf taking the cached leaf whatever its range
locate_leaf_trusts_cache(T, k) ==
    IF T.leaf_cache.leaf_id # None THEN T.leaf_cache.leaf_id
    ELSE descend(T, T.root, k, <<>>).leaf_id

\* BPlusTree::locate_leaf: the cached leaf when its range holds k, else the
\* leaf the descent by locate_child ends in
locate_leaf(T, k) ==
    IF try_cache(T, k) # None THEN try_cache(T, k)
    ELSE descend(T, T.root, k, <<>>).leaf_id

\* BPlusTree::get_cursor: descend from the root, without the cache, and
\* keep the slot locate_slot_with_value gives, whether k is there or not
get_cursor(T, k) ==
    LET leaf_id == descend(T, T.root, k, <<>>).leaf_id
    IN  Cursor_new(k, leaf_id, locate_slot_with_value(T.leaf_nodes[leaf_id], k).idx)

\* BPlusTree::cursor_first, Cursor::first: the first entry of the first leaf
cursor_first(T) ==
    LET leaf_id == edge_leaf(T, T.root, TRUE)
    IN  IF leaf_len(T.leaf_nodes[leaf_id]) = 0 THEN NoCursor
        ELSE Cursor_new(T.leaf_nodes[leaf_id].slot_key[1], leaf_id, 0)

\* the leaf a cursor works on: the hinted leaf while it is live and its
\* range holds the key, else the leaf the lookup by key gives
Cursor_locate_leaf(T, c) ==
    IF /\ try_get_leaf(T, c.leaf_id) # None
       /\ leaf_in_range(T.leaf_nodes[c.leaf_id], c.k)
    THEN c.leaf_id
    ELSE locate_leaf(T, c.k)

\* does slot c.offset of the leaf still hold the cursor's key
Cursor_hint_hits(leaf, c) ==
    c.offset < leaf_len(leaf) /\ leaf.slot_key[c.offset + 1] = c.k

\* the slot of the cursor's key in the leaf, or of its place when absent
Cursor_slot(leaf, c) ==
    IF Cursor_hint_hits(leaf, c) THEN [idx |-> c.offset, found |-> TRUE]
    ELSE [idx |-> locate_slot_with_value(leaf, c.k).idx,
          found |-> locate_slot_with_value(leaf, c.k).v # None]

\* Cursor::value: the value at the hinted slot when the key is still
\* there, else what the search of the leaf finds
Cursor_value_in(leaf, c) ==
    IF Cursor_hint_hits(leaf, c) THEN leaf.slot_value[c.offset + 1]
    ELSE locate_slot_with_value(leaf, c.k).v

Cursor_value(T, c) == Cursor_value_in(T.leaf_nodes[Cursor_locate_leaf(T, c)], c)

\* Cursor::next: one slot on in the leaf, else the first slot of leaf.next
Cursor_next_in(T, leaf_id, leaf, next_offset) ==
    IF next_offset < leaf_len(leaf)
    THEN Cursor_new(leaf.slot_key[next_offset + 1], leaf_id, next_offset)
    ELSE IF leaf.next = None \/ leaf_len(T.leaf_nodes[leaf.next]) = 0 THEN NoCursor
    ELSE Cursor_new(T.leaf_nodes[leaf.next].slot_key[1], leaf.next, 0)

Cursor_next_from(T, leaf_id, s) ==
    Cursor_next_in(T, leaf_id, T.leaf_nodes[leaf_id], IF s.found THEN s.idx + 1 ELSE s.idx)

Cursor_next(T, c) ==
    Cursor_next_from(T, Cursor_locate_leaf(T, c),
                     Cursor_slot(T.leaf_nodes[Cursor_locate_leaf(T, c)], c))

\* Cursor::prev: one slot back in the leaf, else the last slot of leaf.prev
Cursor_prev_in(T, leaf_id, leaf, offset) ==
    IF offset > 0
    THEN Cursor_new(leaf.slot_key[offset], leaf_id, offset - 1)
    ELSE IF leaf.prev = None \/ leaf_len(T.leaf_nodes[leaf.prev]) = 0 THEN NoCursor
    ELSE Cursor_new(T.leaf_nodes[leaf.prev].slot_key[leaf_len(T.leaf_nodes[leaf.prev])],
                    leaf.prev, leaf_len(T.leaf_nodes[leaf.prev]) - 1)

Cursor_prev(T, c) ==
    Cursor_prev_in(T, Cursor_locate_leaf(T, c), T.leaf_nodes[Cursor_locate_leaf(T, c)],
                   Cursor_slot(T.leaf_nodes[Cursor_locate_leaf(T, c)], c).idx)


\* Drop for BPlusTree: ptr::read(self).into_iter() is dropped, which drains
\* the initialised entries of each leaf from the first leaf along next; the
\* values dropped, in that order
RECURSIVE into_iter_drain_from(_, _, _)
into_iter_drain_from(T, id, n) ==
    IF id = None \/ n = 0 THEN <<>>
    ELSE T.leaf_nodes[id].slot_value
         \o into_iter_drain_from(T, T.leaf_nodes[id].next, n - 1)

into_iter_drain(T) ==
    into_iter_drain_from(T, edge_leaf(T, T.root, TRUE), Len(T.leaf_nodes))


\* ---------------------------------------------------------- observations
\* the ids of the leaves below node_id, left to right
RECURSIVE subtree_leaves(_, _)
RECURSIVE children_leaves(_, _, _)
subtree_leaves(T, node_id) ==
    IF node_id.kind = "Leaf" THEN <<node_id.id>>
    ELSE children_leaves(T, T.inner_nodes[node_id.id].child_id, 1)

children_leaves(T, childs, i) ==
    IF i > Len(childs) THEN <<>>
    ELSE subtree_leaves(T, childs[i]) \o children_leaves(T, childs, i + 1)

\* the ids met from leaf id along next, at most n of them
RECURSIVE chain(_, _, _)
chain(T, id, n) ==
    IF id = None \/ n = 0 THEN <<>>
    ELSE <<id>> \o chain(T, T.leaf_nodes[id].next, n - 1)

\* the walk of the iterator: from the first leaf along next
LeafChain(T) == chain(T, edge_leaf(T, T.root, TRUE), Len(T.leaf_nodes) + 1)

\* the keys, and the values, of the leaves ids in slot order
RECURSIVE flat_keys(_, _)
flat_keys(T, ids) ==
    IF ids = <<>> THEN <<>>
    ELSE T.leaf_nodes[Head(ids)].slot_key \o flat_keys(T, Tail(ids))

RECURSIVE flat_values(_, _)
flat_values(T, ids) ==
    IF ids = <<>> THEN <<>>
    ELSE T.leaf_nodes[Head(ids)].slot_value \o flat_values(T, Tail(ids))

\* what iter() yields
IterKeys(T) == flat_keys(T, LeafChain(T))
IterValues(T) == flat_values(T, LeafChain(T))

\* the number of inner levels above the leaves
RECURSIVE height(_, _)
height(T, node_id) ==
    IF node_id.kind = "Leaf" THEN 1
    ELSE 1 + height(T, child_at(T.inner_nodes[node_id.id], 0))

\* the node structure: everything but the leaf cache
Structure(T) == <<T.root, T.len, T.leaf_nodes, T.inner_nodes>>

\* the tree with the leaf cache emptied, so that every call descends
Uncached(T) == [T EXCEPT !.leaf_cache = NoCache]

Ok == panic = "none"

\* ------------------------------------------------------------ the machine
Apply(T) ==
    /\ root' = T.root
    /\ len' = T.len
    /\ leaf_nodes' = T.leaf_nodes
    /\ inner_nodes' = T.inner_nodes
    /\ leaf_cache' = T.leaf_cache
    /\ panic' = T.panic
    /\ UNCHANGED <<inner_n, leaf_n, variant, cursor, fold, call>>

\* BPlusTree::new, with the reference map empty
InitTree ==
    /\ root = LeafId(1)
    /\ len = 0
    /\ leaf_nodes = <<leaf_new>>
    /\ inner_nodes = <<>>
    /\ leaf_cache = NoCache
    /\ panic = "none"
    /\ ref_map = [k \in AllKeys |-> None]
    /\ cursor = NoCursor
    /\ call = NoCall
    /\ fold = NoFold

Init ==
    /\ \E f \in FanOuts : inner_n = f[1] /\ leaf_n = f[2]
    /\ variant \in Variants
    /\ InitTree

InitDeep ==
    /\ \E f \in DeepFanOuts : inner_n = f[1] /\ leaf_n = f[2]
    /\ variant = "store"
    /\ InitTree

\* tree.insert(k, v), while the store has allocated at most leaf_ids leaf
\* slots and MaxInnerIds inner slots
Insert(k, v, leaf_ids) ==
    LET r == insert(Tree, k, v)
    IN  /\ panic = "none"
        /\ Len(r.T.leaf_nodes) <= leaf_ids
        /\ Len(r.T.inner_nodes) <= MaxInnerIds
        /\ Apply(r.T)
        /\ ref_map' = [ref_map EXCEPT ![k] = v]

\* tree.remove(&k)
Remove(k) ==
    LET r == remove(Tree, k)
    IN  /\ panic = "none"
        /\ Apply(r.T)
        /\ ref_map' = [ref_map EXCEPT ![k] = None]

\* tree.get(&k)
Get(k) ==
    LET r == get(Tree, k)
    IN  /\ panic = "none"
        /\ Apply(r.T)
        /\ UNCHANGED ref_map

\* tree.get_mut(&k), the value is left as it is
GetMut(k) ==
    LET r == get(Tree, k)
    IN  /\ panic = "none"
        /\ Apply(r.T)
        /\ UNCHANGED ref_map

\* tree.first()
First ==
    LET r == first(Tree)
    IN  /\ panic = "none"
        /\ Apply(r.T)
        /\ UNCHANGED ref_map

\* tree.last()
LastKV ==
    LET r == last_kv(Tree)
    IN  /\ panic = "none"
        /\ Apply(r.T)
        /\ UNCHANGED ref_map

\* tree.clear()
Clear ==
    LET r == clear(Tree)
    IN  /\ panic = "none"
        /\ Apply(r.T)
        /\ ref_map' = [k \in AllKeys |-> None]

Next ==
    \/ \E k \in Keys, v \in Vals : Insert(k, v, MaxLeafIds)
    \/ \E k \in Keys : Remove(k)
    \/ \E k \in Keys : Get(k)
    \/ \E k \in Keys : GetMut(k)
    \/ First
    \/ LastKV
    \/ Clear

Spec == Init /\ [][Next]_vars

\* The calls that shape the tree, on more keys, with one value and the leaf
\* cache of tree/mod.rs: values, first, last and clear add no tree shape to
\* those insert, remove and get reach.
NextDeep ==
    \/ \E k \in DeepKeys : Insert(k, 1, MaxLeafIds)
    \/ \E k \in DeepKeys : Remove(k)
    \/ \E k \in DeepKeys : Get(k)

SpecDeep == InitDeep /\ [][NextDeep]_vars

\* The same calls on leaves of eight entries, whose minimum is two.
InitWide ==
    /\ \E f \in WideFanOuts : inner_n = f[1] /\ leaf_n = f[2]
    /\ variant = "store"
    /\ InitTree

NextWide ==
    \/ \E k \in WideKeys : Insert(k, 1, MaxWideLeafIds)
    \/ \E k \in WideKeys : Remove(k)
    \/ \E k \in WideKeys : Get(k)

SpecWide == InitWide /\ [][NextWide]_vars

\* A caller that holds one cursor across the calls that change the tree.
\* tree.get_cursor(&k)
GetCursor(k) ==
    /\ panic = "none"
    /\ cursor' = get_cursor(Tree, k)
    /\ UNCHANGED <<inner_n, leaf_n, variant, root, len, leaf_nodes, inner_nodes,
                   leaf_cache, panic, ref_map, fold, call>>

\* tree.cursor_first()
CursorFirst ==
    /\ panic = "none"
    /\ cursor' = cursor_first(Tree)
    /\ UNCHANGED <<inner_n, leaf_n, variant, root, len, leaf_nodes, inner_nodes,
                   leaf_cache, panic, ref_map, fold, call>>

\* cursor = cursor.next(&tree)
CursorNext ==
    /\ panic = "none"
    /\ cursor.some
    /\ cursor' = Cursor_next(Tree, cursor)
    /\ UNCHANGED <<inner_n, leaf_n, variant, root, len, leaf_nodes, inner_nodes,
                   leaf_cache, panic, ref_map, fold, call>>

\* cursor = cursor.prev(&tree)
CursorPrev ==
    /\ panic = "none"
    /\ cursor.some
    /\ cursor' = Cursor_prev(Tree, cursor)
    /\ UNCHANGED <<inner_n, leaf_n, variant, root, len, leaf_nodes, inner_nodes,
                   leaf_cache, panic, ref_map, fold, call>>

InitCursor ==
    /\ \E f \in CursorFanOuts : inner_n = f[1] /\ leaf_n = f[2]
    /\ variant = "store"
    /\ InitTree

NextCursor ==
    \/ \E k \in Keys, v \in Vals : Insert(k, v, MaxCursorLeafIds)
    \/ \E k \in Keys : Remove(k)
    \/ \E k \in Keys : Get(k)
    \/ \E k \in Keys : GetCursor(k)
    \/ CursorFirst
    \/ CursorNext
    \/ CursorPrev

SpecCursor == InitCursor /\ [][NextCursor]_vars

\* A BPlusTreeSet, beside the reference set kept in ref_map (Unit for a
\* member), on the fan-outs of Spec in place of the set's 64.
\* set.insert(k)
SetInsert(k) ==
    LET r == set_insert(Tree, k)
    IN  /\ panic = "none"
        /\ Len(r.T.leaf_nodes) <= MaxLeafIds
        /\ Len(r.T.inner_nodes) <= MaxInnerIds
        /\ Apply(r.T)
        /\ ref_map' = [ref_map EXCEPT ![k] = Unit]

\* set.remove(&k)
SetRemove(k) ==
    LET r == set_remove(Tree, k)
    IN  /\ panic = "none"
        /\ Apply(r.T)
        /\ ref_map' = [ref_map EXCEPT ![k] = None]

\* set.contains(&k)
SetContains(k) ==
    LET r == set_contains(Tree, k)
    IN  /\ panic = "none"
        /\ Apply(r.T)
        /\ UNCHANGED ref_map

\* set.clear()
SetClear ==
    LET r == clear(Tree)
    IN  /\ panic = "none"
        /\ Apply(r.T)
        /\ ref_map' = [k \in AllKeys |-> None]

InitSet ==
    /\ \E f \in FanOuts : inner_n = f[1] /\ leaf_n = f[2]
    /\ variant = "store"
    /\ InitTree

NextSet ==
    \/ \E k \in Keys : SetInsert(k)
    \/ \E k \in Keys : SetRemove(k)
    \/ \E k \in Keys : SetContains(k)
    \/ SetClear

SpecSet == InitSet /\ [][NextSet]_vars

\* A tree with the GroupCount argument and the queries on it.
\* tree.root_argument()
RootArgument ==
    /\ panic = "none"
    /\ group_count(root_argument(Tree)) >= 0
    /\ UNCHANGED vars

\* tree.get_by_argument((group, offset))
GetByArgument(group, offset) ==
    /\ panic = "none"
    /\ get_by_argument(Tree, group, offset).found \in BOOLEAN
    /\ UNCHANGED vars

InitGroup ==
    /\ \E f \in GroupFanOuts : inner_n = f[1] /\ leaf_n = f[2]
    /\ variant = "store"
    /\ InitTree

NextGroup ==
    \/ \E k \in DeepKeys : Insert(k, 1, MaxLeafIds)
    \/ \E k \in DeepKeys : Remove(k)
    \/ RootArgument
    \/ \E g \in Groups, i \in Offsets : GetByArgument(g, i)

SpecGroup == InitGroup /\ [][NextGroup]_vars

\* GroupCount::from_inner on the values from_leaf gives the chunks of a
\* sorted key sequence, one merge_with of its for_each at a time.
\* the keys of S in increasing order
RECURSIVE SortedSeq(_)
SortedSeq(S) ==
    IF S = {} THEN <<>>
    ELSE LET m == CHOOSE x \in S : \A y \in S : x <= y
         IN  <<m>> \o SortedSeq(S \ {m})

\* the ways to cut a sorted sequence of keys of 1..MaxFoldKey into MaxChunks
\* consecutive chunks, empty chunks included: f[k] is the chunk of key k,
\* or 0 when k is not in the sequence
Chunkings ==
    {[c \in 1..MaxChunks |-> SortedSeq({k \in 1..MaxFoldKey : f[k] = c})] :
        f \in {g \in [1..MaxFoldKey -> 0..MaxChunks] :
                  \A a, b \in 1..MaxFoldKey : (a < b /\ g[a] # 0 /\ g[b] # 0) => g[a] <= g[b]}}

\* accumulated.merge_with(a) for the next value a of arguments
MergeNext ==
    /\ fold.idx < Len(fold.chunks)
    /\ fold' = [fold EXCEPT
                  !.idx = @ + 1,
                  !.accumulated = merge_with(@, from_leaf(fold.chunks[fold.idx + 1]))]
    /\ UNCHANGED <<inner_n, leaf_n, variant, root, len, leaf_nodes, inner_nodes,
                   leaf_cache, panic, ref_map, cursor, call>>

InitFold ==
    /\ inner_n = 2 /\ leaf_n = 2
    /\ variant = "store"
    /\ root = LeafId(1)
    /\ len = 0
    /\ leaf_nodes = <<leaf_new>>
    /\ inner_nodes = <<>>
    /\ leaf_cache = NoCache
    /\ panic = "none"
    /\ ref_map = [k \in AllKeys |-> None]
    /\ cursor = NoCursor
    /\ call = NoCall
    /\ \E c \in Chunkings : fold = [chunks |-> c, idx |-> 0, accumulated |-> GroupCount_Zero]

NextFold == MergeNext

SpecFold == InitFold /\ [][NextFold]_vars

\* LeafNode::split_new_leaf on its own: a full leaf of leaf_n entries, each
\* key stored with itself as its value, split for one more item.
SplitKeys == 1..MaxSplitKey

\* leaf.split_new_leaf(idx, (k, k), LeafId(2), LeafId(1)) for an absent k,
\* idx being the slot try_upsert found for k
SplitNewLeaf(k) ==
    LET leaf == leaf_nodes[1]
        sp == split_new_leaf(leaf, locate_child_idx(leaf, k).idx, k, k, 2, 1, leaf_n)
    IN  /\ Len(leaf_nodes) = 1
        /\ ref_map[k] = None
        /\ leaf_nodes' = <<sp.self, sp.new>>
        /\ len' = len + 1
        /\ ref_map' = [ref_map EXCEPT ![k] = k]
        /\ UNCHANGED <<inner_n, leaf_n, variant, root, inner_nodes, leaf_cache,
                       panic, cursor, fold, call>>

InitSplit ==
    /\ inner_n = 2
    /\ leaf_n \in 1..MaxSplitLeafN
    /\ variant = "store"
    /\ root = LeafId(1)
    /\ len = leaf_n
    /\ \E S \in {X \in SUBSET SplitKeys : Cardinality(X) = leaf_n} :
          /\ leaf_nodes = <<[leaf_new EXCEPT !.slot_key = SortedSeq(S),
                                             !.slot_value = SortedSeq(S)]>>
          /\ ref_map = [k \in AllKeys |-> IF k \in S THEN k ELSE None]
    /\ inner_nodes = <<>>
    /\ leaf_cache = NoCache
    /\ panic = "none"
    /\ cursor = NoCursor
    /\ call = NoCall
    /\ fold = NoFold

NextSplit == \E k \in SplitKeys : SplitNewLeaf(k)

SpecSplit == InitSplit /\ [][NextSplit]_vars

\* The rebalancing of leaves on its own: the tree starts as a root over two
\* or three leaves of any sizes between the leaf minimum and LN, holding the
\* keys 1, 2, ... in order, and entries are removed and looked up.
FixLeafNs == {3, 8}

\* the value stored with key k
FixValue(k) == (k % MaxVal) + 1

\* sz[1] + ... + sz[i]
RECURSIVE SumTo(_, _)
SumTo(sz, i) == IF i = 0 THEN 0 ELSE sz[i] + SumTo(sz, i - 1)

\* the sizes of the leaves, left to right
FixSizes(N) ==
    {sz \in UNION {[1..n -> minimum_size(N)..N] : n \in 2..MaxFixLeaves} :
        SumTo(sz, Len(sz)) <= MaxWideKey}

\* the i-th leaf of the tree whose leaves have the sizes sz
FixLeaf(sz, i) ==
    [leaf_new EXCEPT
        !.slot_key = [j \in 1..sz[i] |-> SumTo(sz, i - 1) + j],
        !.slot_value = [j \in 1..sz[i] |-> FixValue(SumTo(sz, i - 1) + j)],
        !.prev = IF i = 1 THEN None ELSE i - 1,
        !.next = IF i = Len(sz) THEN None ELSE i + 1]

InitFix ==
    /\ inner_n = 2
    /\ leaf_n \in FixLeafNs
    /\ variant = "store"
    /\ root = InnerId(1)
    /\ \E sz \in FixSizes(leaf_n) :
          /\ leaf_nodes = [i \in 1..Len(sz) |-> FixLeaf(sz, i)]
          /\ inner_nodes = <<inner_new([i \in 1..(Len(sz) - 1) |-> SumTo(sz, i) + 1],
                                       [i \in 1..Len(sz) |-> LeafId(i)])>>
          /\ len = SumTo(sz, Len(sz))
          /\ ref_map = [k \in AllKeys |->
                          IF k <= SumTo(sz, Len(sz)) THEN FixValue(k) ELSE None]
    /\ leaf_cache = NoCache
    /\ panic = "none"
    /\ cursor = NoCursor
    /\ call = NoCall
    /\ fold = NoFold

NextFix ==
    \/ \E k \in WideKeys : Remove(k)
    \/ \E k \in WideKeys : Get(k)

SpecFix == InitFix /\ [][NextFix]_vars

\* The rebalancing of inner nodes on its own: the tree starts with three
\* levels, a root over inner nodes that hold between the inner minimum and
\* IN keys, over leaves of one or two entries (LN = 2) holding the keys
\* 1, 2, ... in order, and entries are removed.
InnerFixNs == {2, 3}

\* the numbers of children of the inner nodes below the root, left to right
InnerShapes(N) ==
    {cs \in UNION {[1..m -> (inner_minimum_size(N) + 1)..(N + 1)] : m \in 2..(N + 1)} :
        SumTo(cs, Len(cs)) <= MaxWideKey}

\* the sizes of L leaves, left to right
InnerFixSizes(L) == {sz \in [1..L -> 1..2] : SumTo(sz, L) <= MaxWideKey}

\* the j-th inner node below the root: its children are the next cs[j]
\* leaves, its keys the first keys of all of them but the first
InnerOver(cs, sz, j) ==
    inner_new([i \in 1..(cs[j] - 1) |-> SumTo(sz, SumTo(cs, j - 1) + i) + 1],
              [i \in 1..cs[j] |-> LeafId(SumTo(cs, j - 1) + i)])

\* the root: its keys are the first keys under its children but the first
RootOver(cs, sz) ==
    inner_new([j \in 1..(Len(cs) - 1) |-> SumTo(sz, SumTo(cs, j)) + 1],
              [j \in 1..Len(cs) |-> InnerId(j)])

InitInnerFix ==
    /\ inner_n \in InnerFixNs
    /\ leaf_n = 2
    /\ variant = "store"
    /\ \E cs \in InnerShapes(inner_n) :
          \E sz \in InnerFixSizes(SumTo(cs, Len(cs))) :
             /\ root = InnerId(Len(cs) + 1)
             /\ leaf_nodes = [i \in 1..Len(sz) |-> FixLeaf(sz, i)]
             /\ inner_nodes = [j \in 1..(Len(cs) + 1) |->
                                  IF j <= Len(cs) THEN InnerOver(cs, sz, j)
                                  ELSE RootOver(cs, sz)]
             /\ len = SumTo(sz, Len(sz))
             /\ ref_map = [k \in AllKeys |->
                             IF k <= SumTo(sz, Len(sz)) THEN FixValue(k) ELSE None]
    /\ leaf_cache = NoCache
    /\ panic = "none"
    /\ cursor = NoCursor
    /\ call = NoCall
    /\ fold = NoFold

NextInnerFix == \E k \in WideKeys : Remove(k)

SpecInnerFix == InitInnerFix /\ [][NextInnerFix]_vars

\* A call followed through its loops: the tree starts with three levels
\* (IN = 2, LN = 2) and insert, remove and get are called on it; a call that
\* misses the leaf cache on a tree with an inner root runs one action per
\* iteration of its descent loop and of its propagation loop, then its tail,
\* and returns. Any other call has no loop and runs in one action. MaxCalls
\* calls are made on each tree.
MaxStepKey == 7
MaxCalls == 2
StepKeys == 1..MaxStepKey
Ops == {"insert", "remove", "get"}

InitSteps ==
    /\ inner_n = 2
    /\ leaf_n = 2
    /\ variant = "store"
    /\ \E cs \in InnerShapes(inner_n) :
          \E sz \in InnerFixSizes(SumTo(cs, Len(cs))) :
             /\ SumTo(sz, Len(sz)) <= MaxStepKey
             /\ root = InnerId(Len(cs) + 1)
             /\ leaf_nodes = [i \in 1..Len(sz) |-> FixLeaf(sz, i)]
             /\ inner_nodes = [j \in 1..(Len(cs) + 1) |->
                                  IF j <= Len(cs) THEN InnerOver(cs, sz, j)
                                  ELSE RootOver(cs, sz)]
             /\ len = SumTo(sz, Len(sz))
             /\ ref_map = [k \in AllKeys |->
                             IF k <= SumTo(sz, Len(sz)) THEN FixValue(k) ELSE None]
    /\ leaf_cache = NoCache
    /\ panic = "none"
    /\ cursor = NoCursor
    /\ call = NoCall
    /\ fold = NoFold

\* the whole call op(k, v) on T
Whole(T, op, k, v) ==
    CASE op = "insert" -> insert(T, k, v)
      [] op = "remove" -> remove(T, k)
      [] op = "get" -> get(T, k)

\* a result as the running call holds it between two steps, and with the
\* tree it refers to
Kept(r) == [r EXCEPT !.T = None]
OnTree(r) == [r EXCEPT !.T = Tree]

\* a step of the call: the tree becomes T, the call moves on to c
Run(T, c) ==
    /\ root' = T.root
    /\ len' = T.len
    /\ leaf_nodes' = T.leaf_nodes
    /\ inner_nodes' = T.inner_nodes
    /\ leaf_cache' = T.leaf_cache
    /\ panic' = T.panic
    /\ call' = c
    /\ UNCHANGED <<inner_n, leaf_n, variant, ref_map, cursor, fold>>

\* the call begins: r is what the whole call makes of the tree. On a cache
\* hit and on a root leaf there is no loop to enter; else the descent
\* starts at the root with an empty stack
BeginWith(op, k, v, r) ==
    /\ call.op = "idle"
    /\ panic = "none"
    /\ call.n < MaxCalls
    /\ IF r.path = "fast" \/ root.kind = "Leaf"
       THEN Run(r.T, [NoCall EXCEPT !.op = op, !.pc = "done", !.path = "direct",
                                    !.k = k, !.v = v, !.T0 = Tree, !.n = call.n + 1])
       ELSE Run(Tree, [NoCall EXCEPT !.op = op, !.pc = "descend", !.path = "descent",
                                     !.k = k, !.v = v, !.id = root, !.T0 = Tree,
                                     !.n = call.n + 1])

Begin(op, k) == \E r \in {Whole(Tree, op, k, FixValue(k))} : BeginWith(op, k, FixValue(k), r)

\* one iteration of the first loop of insert_inner at the inner node
\* call.id: lc is the child located, r the result of insert_leaf on it
DescendInsertAt(lc, r) ==
    IF lc.child_id.kind = "Inner"
    THEN Run(Tree, [call EXCEPT !.id = lc.child_id, !.steps = @ + 1,
                                !.stack = Append(@, <<call.id.id, lc.idx>>)])
    ELSE Run(r.T, [call EXCEPT !.pc = "propagate", !.id = lc.child_id, !.steps = @ + 1,
                               !.stack = Append(@, <<call.id.id, lc.idx>>),
                               !.r = Kept(r)])

DescendInsertTo(lc) ==
    \E r \in {IF lc.child_id.kind = "Inner" THEN InsRes(Tree, "Inserted", None, None, None)
              ELSE insert_leaf(Tree, lc.child_id.id, call.k, call.v)} :
        DescendInsertAt(lc, r)

DescendInsert ==
    /\ call.op = "insert"
    /\ call.pc = "descend"
    /\ \E lc \in {locate_child(inner_nodes[call.id.id], call.k)} : DescendInsertTo(lc)

\* one iteration of the first loop of remove_inner at the inner node
\* call.id: only a node above an inner child is pushed; above a leaf, r is
\* the result of try_delete and handle_leaf_under_size
DescendRemoveAt(lc, r) ==
    IF lc.child_id.kind = "Inner"
    THEN Run(Tree, [call EXCEPT !.id = lc.child_id, !.steps = @ + 1,
                                !.stack = Append(@, <<call.id.id, lc.idx>>)])
    ELSE Run(r.T, [call EXCEPT !.pc = "propagate", !.id = lc.child_id, !.steps = @ + 1,
                               !.r = Kept(r)])

\* the match on del, the result of try_delete on the leaf child
DeleteInLeaf(lc, del) ==
    CASE del.res = "Done" ->
            DelRes(put_leaf(Tree, lc.child_id.id, del.leaf), "Done", del.kv, "none")
      [] del.res = "NotFound" -> DelRes(Tree, "None", <<None, None>>, "none")
      [] del.res = "UnderSize" ->
            handle_leaf_under_size(Tree, call.id.id, lc.idx, del.idx)

DescendRemoveTo(lc) ==
    IF lc.child_id.kind = "Inner"
    THEN DescendRemoveAt(lc, DelRes(Tree, "Done", <<None, None>>, "none"))
    ELSE \E del \in {try_delete(leaf_nodes[lc.child_id.id], call.k, leaf_n)} :
            \E r \in {DeleteInLeaf(lc, del)} : DescendRemoveAt(lc, r)

DescendRemove ==
    /\ call.op = "remove"
    /\ call.pc = "descend"
    /\ \E lc \in {locate_child(inner_nodes[call.id.id], call.k)} : DescendRemoveTo(lc)

\* one iteration of the loop of find_descend at an inner node
DescendGet ==
    /\ call.op = "get"
    /\ call.pc = "descend"
    /\ call.id.kind = "Inner"
    /\ Run(Tree, [call EXCEPT !.id = locate_child(inner_nodes[call.id.id], call.k).child_id,
                              !.steps = @ + 1])

\* one iteration of the second loop of insert_inner: the top of the stack
\* is popped and the split registered there
PropagateInsertTo(r) ==
    Run(r.T, [call EXCEPT !.stack = SubSeq(@, 1, Len(@) - 1), !.pops = @ + 1,
                          !.r = Kept(r)])

PropagateInsert ==
    /\ call.op = "insert"
    /\ call.pc = "propagate"
    /\ call.r.res = "Split"
    /\ call.stack # <<>>
    /\ \E r \in {insert_propagate(OnTree(call.r), <<call.stack[Len(call.stack)]>>)} :
          PropagateInsertTo(r)

\* an iteration of the second loop of remove_inner that leaves the entry it
\* read on the stack
PropagateRemoveTo_keeps_entry(r) ==
    Run(r.T, [call EXCEPT !.pops = @ + 1, !.r = Kept(r)])

\* one iteration of the second loop of remove_inner
PropagateRemoveTo(r) ==
    Run(r.T, [call EXCEPT !.stack = SubSeq(@, 1, Len(@) - 1), !.pops = @ + 1,
                          !.r = Kept(r)])

PropagateRemove ==
    /\ call.op = "remove"
    /\ call.pc = "propagate"
    /\ call.r.res = "InnerUnderSize"
    /\ call.stack # <<>>
    /\ \E r \in {remove_propagate(OnTree(call.r), <<call.stack[Len(call.stack)]>>)} :
          PropagateRemoveTo(r)

\* insert_inner returns and insert ends: root growth on Split, and len
FinishInsert ==
    /\ call.op = "insert"
    /\ call.pc = "propagate"
    /\ call.r.res # "Split" \/ call.stack = <<>>
    /\ \E ret \in {insert_descended(Tree, OnTree(call.r))} :
          Run(ret.T, [call EXCEPT !.pc = "done"])

\* remove_inner returns and remove ends: root shrink, and len
FinishRemove ==
    /\ call.op = "remove"
    /\ call.pc = "propagate"
    /\ call.r.res # "InnerUnderSize" \/ call.stack = <<>>
    /\ \E ret \in {remove_descended(Tree, OnTree(call.r))} :
          Run(ret.T, [call EXCEPT !.pc = "done"])

\* find_descend at the leaf: find_in_leaf_and_cache_it
FinishGet ==
    /\ call.op = "get"
    /\ call.pc = "descend"
    /\ call.id.kind = "Leaf"
    /\ Run(cache_leaf(Tree, call.id.id), [call EXCEPT !.pc = "done"])

\* the call returns to the caller
Return ==
    /\ call.pc = "done"
    /\ call' = [NoCall EXCEPT !.n = call.n]
    /\ ref_map' = CASE call.op = "insert" -> [ref_map EXCEPT ![call.k] = call.v]
                     [] call.op = "remove" -> [ref_map EXCEPT ![call.k] = None]
                     [] call.op = "get" -> ref_map
    /\ UNCHANGED <<inner_n, leaf_n, variant, root, len, leaf_nodes, inner_nodes,
                   leaf_cache, panic, cursor, fold>>

\* the steps of a call that has begun
Progress ==
    \/ DescendInsert
    \/ DescendRemove
    \/ DescendGet
    \/ PropagateInsert
    \/ PropagateRemove
    \/ FinishInsert
    \/ FinishRemove
    \/ FinishGet
    \/ Return

NextSteps ==
    \/ \E op \in Ops, k \in StepKeys : Begin(op, k)
    \/ Progress

\* a call that has begun is run on by the one thread that made it
SpecSteps == InitSteps /\ [][NextSteps]_vars /\ WF_vars(Progress)

\* The remove of lib.rs, which takes every inner node on the path out of
\* the store while it works below it. What take_inner hands the caller is
\* held in a slot past the store's own, where no id of the tree points, and
\* the slot of the node itself is left taken as std::mem::take leaves it.
\* NodeStore::put_back_inner
put_back_inner(T, id, held) ==
    [T EXCEPT !.inner_nodes =
        [i \in 1..(held - 1) |-> IF i = id THEN T.inner_nodes[held] ELSE T.inner_nodes[i]]]

\* remove_inner putting back the node as it was when it was taken
remove_inner_taking_puts_back_stale(T, node_id, k) ==
    LET r == remove_inner(T, node_id, k)
    IN  [r EXCEPT !.T = [r.T EXCEPT !.inner_nodes[node_id] = T.inner_nodes[node_id]]]

\* the match of remove_inner on the child located, with the node held at
\* the slot held: below is the result of the remove in an inner child, del
\* the result of try_delete in a leaf child
remove_inner_match(T, held, lc, below, del) ==
    IF lc.child_id.kind = "Inner"
    THEN IF below.res = "InnerUnderSize"
         THEN handle_inner_under_size(below.T, held, lc.idx, below.kv, below.fix)
         ELSE below
    ELSE CASE del.res = "Done" ->
                 DelRes(put_leaf(T, lc.child_id.id, del.leaf), "Done", del.kv, "none")
           [] del.res = "NotFound" -> DelRes(T, "None", <<None, None>>, "none")
           [] del.res = "UnderSize" -> handle_leaf_under_size(T, held, lc.idx, del.idx)

\* BPlusTree::remove_inner of lib.rs: take_inner, the work below, put_back_inner
RECURSIVE remove_inner_taking(_, _, _)
remove_inner_taking(T, node_id, k) ==
    LET held == Len(T.inner_nodes) + 1
        T1 == add_inner(take_inner(T, node_id), T.inner_nodes[node_id])
        lc == locate_child(T.inner_nodes[node_id], k)
        r == remove_inner_match(
                 T1, held, lc,
                 IF lc.child_id.kind = "Inner" THEN remove_inner_taking(T1, lc.child_id.id, k)
                 ELSE DelRes(T1, "None", <<None, None>>, "none"),
                 IF lc.child_id.kind = "Inner" THEN [res |-> "NotFound"]
                 ELSE try_delete(T1.leaf_nodes[lc.child_id.id], k, T1.leaf_n))
    IN  [r EXCEPT !.T = put_back_inner(r.T, node_id, held)]

\* BPlusTree::remove of lib.rs: the cache arm and the root-leaf arm are
\* those of remove, the descent is remove_inner_taking
remove_taking(T, k) ==
    IF T.root.kind = "Inner" /\ remove(T, k).path # "fast"
    THEN remove_descended(T, remove_inner_taking(T, T.root.id, k))
    ELSE remove(T, k)

MaxTakeKey == 7
TakeKeys == 1..MaxTakeKey

InitTake ==
    /\ inner_n = 2
    /\ leaf_n = 2
    /\ variant = "item"
    /\ \E cs \in InnerShapes(inner_n) :
          \E sz \in InnerFixSizes(SumTo(cs, Len(cs))) :
             /\ SumTo(sz, Len(sz)) <= MaxTakeKey
             /\ root = InnerId(Len(cs) + 1)
             /\ leaf_nodes = [i \in 1..Len(sz) |-> FixLeaf(sz, i)]
             /\ inner_nodes = [j \in 1..(Len(cs) + 1) |->
                                  IF j <= Len(cs) THEN InnerOver(cs, sz, j)
                                  ELSE RootOver(cs, sz)]
             /\ len = SumTo(sz, Len(sz))
             /\ ref_map = [k \in AllKeys |->
                             IF k <= SumTo(sz, Len(sz)) THEN FixValue(k) ELSE None]
    /\ leaf_cache = NoCache
    /\ panic = "none"
    /\ cursor = NoCursor
    /\ call = NoCall
    /\ fold = NoFold

\* tree.remove(&k) of lib.rs
RemoveTaking(k) ==
    \E r \in {remove_taking(Tree, k)} :
        /\ panic = "none"
        /\ Apply(r.T)
        /\ ref_map' = [ref_map EXCEPT ![k] = None]

NextTake ==
    \/ \E k \in TakeKeys : RemoveTaking(k)
    \/ \E k \in TakeKeys : Get(k)

SpecTake == InitTake /\ [][NextTake]_vars

\* ----------------------------------------------------------------- claims
\* does key k occur in what iter() yields
Stored(T, k) == \E i \in 1..Len(IterKeys(T)) : IterKeys(T)[i] = k

Increasing(s) == \A i \in 1..(Len(s) - 1) : s[i] < s[i + 1]

\* C1: the tree agrees with a reference map. In every reachable state and
\* for every key k, insert(k, v) returns the value stored under k (None when
\* k is absent), remove(k) returns the stored value (None when absent) and
\* get(k) returns the reference map's value, on the cache fast path as on the
\* descent path; after insert(k, v) the tree holds one entry for k, with
\* value v.
C1_Refinement ==
    Ok => \A k \in AllKeys :
            /\ get(Tree, k).ret = ref_map[k]
            /\ remove(Tree, k).ret = ref_map[k]
            /\ \A v \in Vals :
                LET r == insert(Tree, k, v)
                IN  /\ r.ret = ref_map[k]
                    /\ get(r.T, k).ret = v
                    /\ Cardinality({i \in 1..Len(IterKeys(r.T)) :
                                        IterKeys(r.T)[i] = k}) = 1

\* a key holding the second value whose update takes the fast path and
\* returns that value, and a key whose remove descends and returns its value
C1_Witness ==
    /\ Ok
    /\ \E k \in AllKeys :
        /\ ref_map[k] = 2
        /\ insert(Tree, k, 1).path = "fast"
        /\ insert(Tree, k, 1).res = "Updated"
        /\ insert(Tree, k, 1).ret = 2
    /\ \E k \in AllKeys :
        /\ ref_map[k] # None
        /\ remove(Tree, k).path = "descent"
        /\ remove(Tree, k).res \in {"MergeLeft", "MergeRight"}
        /\ remove(Tree, k).ret = ref_map[k]

\* C2: len() equals the number of entries iter() yields; an insert of a new
\* key grows it by one, a remove of a stored key shrinks it by one, an
\* updating insert and a remove of an absent key leave it as it is.
C2_Len ==
    Ok => /\ len = Len(IterKeys(Tree))
          /\ \A k \in AllKeys :
                /\ remove(Tree, k).T.len = len - (IF Stored(Tree, k) THEN 1 ELSE 0)
                /\ \A v \in Vals :
                    insert(Tree, k, v).T.len = len + (IF Stored(Tree, k) THEN 0 ELSE 1)

\* a tree grown by two splits where a remove on the fast path and a remove
\* that merges both shrink len, and an updating insert leaves it
C2_Witness ==
    /\ Ok
    /\ len >= 3
    /\ Len(leaf_nodes) >= 3
    /\ \E k \in AllKeys : remove(Tree, k).path = "fast" /\ remove(Tree, k).res = "Done"
    /\ \E k \in AllKeys : remove(Tree, k).res \in {"MergeLeft", "MergeRight"}
    /\ \E k \in AllKeys : insert(Tree, k, 1).res = "Updated"

\* C3: the keys read from the first leaf along next, each leaf in slot
\* order, are strictly increasing.
C3_Order == Ok => Increasing(IterKeys(Tree))

\* a tree that has merged leaves before, and in which a remove rotates an
\* entry from the left sibling and leaves several leaves in key order
C3_Witness ==
    /\ Ok
    /\ \E id \in 1..Len(leaf_nodes) : leaf_nodes[id].taken
    /\ \E k \in AllKeys :
        LET r == remove(Tree, k)
        IN  /\ r.res = "RotateRight"
            /\ Len(LeafChain(r.T)) >= 2
            /\ Len(IterKeys(r.T)) >= 3
            /\ Increasing(IterKeys(r.T))


\* C4: no public call reaches a panic path. In every reachable state the
\* tree has not panicked, and insert, remove, get (get_mut), first and last
\* on it, for every key and value, end without reaching an unreachable!()
\* arm (IsFull or UnderSize on the cache fast path, a leaf with no sibling
\* in handle_leaf_under_size), a failed able_to_lend or slot < len debug
\* assertion, or an access to a taken or mistyped node.
C4_NoPanic ==
    /\ Ok
    /\ first(Tree).T.panic = "none"
    /\ last_kv(Tree).T.panic = "none"
    /\ \A k \in AllKeys :
        /\ get(Tree, k).T.panic = "none"
        /\ remove(Tree, k).T.panic = "none"
        /\ \A v \in Vals : insert(Tree, k, v).T.panic = "none"

\* a tree of three levels on which one remove is answered by the cache fast
\* path, one borrows from a sibling leaf, and one merges leaves, merges the
\* inner nodes above them and takes a level off the tree
C4_Witness ==
    /\ Ok
    /\ height(Tree, root) = 3
    /\ \E k \in AllKeys : remove(Tree, k).path = "fast" /\ remove(Tree, k).res = "Done"
    /\ \E k \in AllKeys : remove(Tree, k).res \in {"RotateRight", "RotateLeft"}
    /\ \E k \in AllKeys :
        LET r == remove(Tree, k)
        IN  /\ r.res \in {"MergeLeft", "MergeRight"}
            /\ height(r.T, r.T.root) = 2
            /\ r.T.panic = "none"

\* C5: a hit of the leaf cache is a hit on the right leaf. In every
\* reachable state, for every key k for which try_cache gives a leaf L
\* (the cached leaf's live range, or the cached CacheItem range, contains
\* k), L is in the store, not taken, and the leaf a descent from the root
\* through locate_child reaches for k; and get, remove and insert answer k
\* as they do on the same tree with the cache emptied: the same returned
\* value and the same nodes.
C5_CacheCoherent ==
    Ok => \A k \in AllKeys :
            LET L == try_cache(Tree, k)
            IN  L # None =>
                  /\ L \in 1..Len(leaf_nodes)
                  /\ ~leaf_nodes[L].taken
                  /\ L = descend(Tree, root, k, <<>>).leaf_id
                  /\ get(Tree, k).ret = get(Uncached(Tree), k).ret
                  /\ remove(Tree, k).ret = remove(Uncached(Tree), k).ret
                  /\ Structure(remove(Tree, k).T) = Structure(remove(Uncached(Tree), k).T)
                  /\ \A v \in Vals :
                        /\ insert(Tree, k, v).ret = insert(Uncached(Tree), k, v).ret
                        /\ Structure(insert(Tree, k, v).T)
                             = Structure(insert(Uncached(Tree), k, v).T)

\* a tree with the copied-range cache, after a leaf merge, whose cache hits
\* for one key and misses for a key of another leaf, with an insert and a
\* remove answered on the fast path
C5_Witness ==
    /\ Ok
    /\ variant = "item"
    /\ \E id \in 1..Len(leaf_nodes) : leaf_nodes[id].taken
    /\ Len(LeafChain(Tree)) >= 2
    /\ \E k \in AllKeys : Stored(Tree, k) /\ try_cache(Tree, k) = None
    /\ \E k \in AllKeys :
        /\ try_cache(Tree, k) # None
        /\ insert(Tree, k, 1).path = "fast"
        /\ remove(Tree, k).path = "fast"
        /\ remove(Tree, k).ret # None

\* C6: a key that is not stored is answered with None. In every reachable
\* state, for every key k that iter() does not yield, get(k) and remove(k)
\* return None without a panic, and remove(k) leaves root, len and every
\* leaf and inner node as they were, on the cache fast path and on the
\* descent path alike.
C6_AbsentKey ==
    Ok => \A k \in AllKeys :
            ~Stored(Tree, k) =>
                /\ get(Tree, k).ret = None
                /\ get(Tree, k).T.panic = "none"
                /\ remove(Tree, k).ret = None
                /\ remove(Tree, k).res = "NotFound"
                /\ remove(Tree, k).T.panic = "none"
                /\ Structure(remove(Tree, k).T) = Structure(Tree)

\* a tree with inner nodes where one absent key is answered by the cache
\* fast path and another by a descent
C6_Witness ==
    /\ Ok
    /\ root.kind = "Inner"
    /\ \E k \in AllKeys :
        ~Stored(Tree, k) /\ remove(Tree, k).path = "fast" /\ remove(Tree, k).ret = None
    /\ \E k \in AllKeys :
        ~Stored(Tree, k) /\ remove(Tree, k).path = "descent" /\ remove(Tree, k).ret = None

\* C7: keys inserted in any order and removed in any order leave an empty
\* tree. In every reachable state remove(k) of a stored key k returns Some
\* value, and once no entry is left (every inserted key has been removed)
\* len is 0, is_empty() holds, iter() yields nothing and the root is a leaf
\* again.
C7_RoundTrip ==
    Ok => /\ \A k \in AllKeys : Stored(Tree, k) => remove(Tree, k).ret # None
          /\ (len = 0 \/ IterKeys(Tree) = <<>>) =>
                /\ len = 0
                /\ IterKeys(Tree) = <<>>
                /\ root.kind = "Leaf"

\* a tree that grew to three levels (three inner nodes) and was emptied by
\* removes
C7_Witness ==
    /\ Ok
    /\ len = 0
    /\ root.kind = "Leaf"
    /\ Len(inner_nodes) >= 3
    /\ \A k \in AllKeys : ref_map[k] = None

\* the leaves of the tree T when its root is an inner node
NonRootLeaves(T) ==
    IF T.root.kind = "Leaf" THEN {}
    ELSE {subtree_leaves(T, T.root)[i] : i \in 1..Len(subtree_leaves(T, T.root))}

\* every leaf of T other than the root holds at least bound entries
LeafOccupancy(T, bound) ==
    \A id \in NonRootLeaves(T) :
        ~T.leaf_nodes[id].taken /\ leaf_len(T.leaf_nodes[id]) >= bound

\* C8 as stated: after every completed insert or remove every leaf other
\* than the root holds at least ceil(LN/2) entries.
C8_Original ==
    Ok => LeafOccupancy(Tree, (leaf_n + 1) \div 2)

\* C8, amended: after every completed insert or remove every leaf other
\* than the root holds at least max(1, floor(LN/4)) entries; only the root
\* leaf may hold fewer. Stated for every reachable tree and for the tree
\* every further insert or remove leaves.
C8_LeafMinimum ==
    Ok => LET bound == IF leaf_n \div 4 = 0 THEN 1 ELSE leaf_n \div 4
          IN  /\ LeafOccupancy(Tree, bound)
              /\ \A k \in AllKeys :
                    /\ LeafOccupancy(remove(Tree, k).T, bound)
                    /\ LeafOccupancy(insert(Tree, k, 1).T, bound)

\* leaves of eight entries whose minimum is two: a remove borrows for a
\* leaf that would drop below two, and leaves a leaf other than the root
\* with exactly two entries, fewer than half of eight
C8_Witness ==
    /\ Ok
    /\ leaf_n = 8
    /\ \E k \in AllKeys :
        LET r == remove(Tree, k)
        IN  /\ r.res \in {"RotateLeft", "RotateRight"}
            /\ \E id \in NonRootLeaves(r.T) : leaf_len(r.T.leaf_nodes[id]) = 2

\* the ids of the inner nodes at and below node_id
RECURSIVE subtree_inners(_, _)
subtree_inners(T, node_id) ==
    IF node_id.kind = "Leaf" THEN {}
    ELSE {node_id.id} \cup
         UNION {subtree_inners(T, T.inner_nodes[node_id.id].child_id[i]) :
                    i \in 1..Len(T.inner_nodes[node_id.id].child_id)}

\* the inner nodes of the tree T other than its root
NonRootInners(T) == subtree_inners(T, T.root) \ {T.root.id}

\* every inner node of T other than the root holds at least bound keys
InnerOccupancy(T, bound) ==
    \A id \in NonRootInners(T) :
        ~T.inner_nodes[id].taken /\ inner_len(T.inner_nodes[id]) >= bound

Chained(T) ==
    LET ch == LeafChain(T)
    IN  /\ ch = subtree_leaves(T, T.root)
        /\ T.leaf_nodes[ch[1]].prev = None
        /\ T.leaf_nodes[ch[Len(ch)]].next = None
        /\ \A i \in 1..Len(ch) :
            /\ ~T.leaf_nodes[ch[i]].taken
            /\ T.leaf_nodes[ch[i]].next # None =>
                    T.leaf_nodes[T.leaf_nodes[ch[i]].next].prev = ch[i]

\* T2 is T after an insert: if the insert split the leaf old, the new leaf
\* is wired in after it
SplitWired(T, T2, old) ==
    LET new == Len(T.leaf_nodes) + 1
        old_next == T.leaf_nodes[old].next
    IN  Len(T2.leaf_nodes) = new =>
            /\ T2.leaf_nodes[new].prev = old
            /\ T2.leaf_nodes[new].next = old_next
            /\ T2.leaf_nodes[old].next = new
            /\ old_next # None => T2.leaf_nodes[old_next].prev = new

\* r is the result of a remove on T: if it merged the leaf absorbed into the
\* leaf before it, the survivor is wired to the absorbed leaf's successor
MergeWired(T, r, absorbed) ==
    LET survivor == T.leaf_nodes[absorbed].prev
        next == T.leaf_nodes[absorbed].next
    IN  (~T.leaf_nodes[absorbed].taken /\ r.T.leaf_nodes[absorbed].taken) =>
            /\ r.res \in {"MergeLeft", "MergeRight"}
            /\ survivor # None
            /\ r.T.leaf_nodes[survivor].next = next
            /\ next # None => r.T.leaf_nodes[next].prev = survivor

\* C10: the leaves form one doubly linked chain in key order. In every
\* reachable state, following next from the leftmost leaf visits the leaves
\* below the root, left to right, each once, and ends at a leaf whose next
\* is None; a leaf's next has that leaf as prev; the leftmost leaf has no
\* prev. A split gives the new leaf prev = old leaf and next = old next,
\* sets old.next to the new leaf and the old successor's prev to the new
\* leaf; a merge sets the survivor's next to the absorbed leaf's next and
\* that successor's prev to the survivor.
C10_LeafChain ==
    Ok => /\ Chained(Tree)
          /\ \A k \in AllKeys :
                LET ri == insert(Tree, k, 1)
                    rr == remove(Tree, k)
                IN  /\ SplitWired(Tree, ri.T, descend(Tree, root, k, <<>>).leaf_id)
                    /\ \A id \in 1..Len(leaf_nodes) : MergeWired(Tree, rr, id)
                    /\ Chained(ri.T)
                    /\ Chained(rr.T)

\* a chain of at least three leaves where one insert splits a leaf that has
\* a successor and one remove merges away a leaf that has a successor
C10_Witness ==
    /\ Ok
    /\ Len(LeafChain(Tree)) >= 3
    /\ \E k \in AllKeys :
        LET old == descend(Tree, root, k, <<>>).leaf_id
        IN  /\ Len(insert(Tree, k, 1).T.leaf_nodes) = Len(leaf_nodes) + 1
            /\ leaf_nodes[old].next # None
            /\ insert(Tree, k, 1).T.leaf_nodes[leaf_nodes[old].next].prev = Len(leaf_nodes) + 1
    /\ \E k \in AllKeys : \E id \in 1..Len(leaf_nodes) :
        /\ ~leaf_nodes[id].taken
        /\ remove(Tree, k).T.leaf_nodes[id].taken
        /\ leaf_nodes[id].next # None
        /\ remove(Tree, k).T.leaf_nodes[leaf_nodes[id].next].prev = leaf_nodes[id].prev

\* the first (smallest) key stored below node_id, None when its leftmost
\* leaf is empty
FirstKey(T, node_id) ==
    LET leaf == T.leaf_nodes[edge_leaf(T, node_id, TRUE)]
    IN  IF leaf_len(leaf) = 0 THEN None ELSE leaf.slot_key[1]

\* the separators of T whose right subtree has the leaf id as leftmost leaf
SepOf(T, id) ==
    UNION {{T.inner_nodes[n].slot_key[i] :
                i \in {j \in 1..inner_len(T.inner_nodes[n]) :
                          edge_leaf(T, T.inner_nodes[n].child_id[j + 1], TRUE) = id}} :
           n \in subtree_inners(T, T.root)}

\* C11 as stated: for each inner node and each separator index i, key(i)
\* equals the first key stored in the subtree rooted at child(i+1).
C11_Original ==
    Ok => \A n \in subtree_inners(Tree, root) :
            \A i \in 1..inner_len(inner_nodes[n]) :
                inner_nodes[n].slot_key[i] = FirstKey(Tree, inner_nodes[n].child_id[i + 1])

\* C11, amended: for each inner node and each separator index i, key(i) is
\* at most the first key stored in the subtree rooted at child(i+1), which
\* is not empty; it equals that first key when a leaf split or a leaf
\* rotation has just written the separator. A remove that deletes the first
\* key of a leaf without rebalancing leaves key(i) below the new first key.
C11_SeparatorBound ==
    Ok => /\ \A n \in subtree_inners(Tree, root) :
                \A i \in 1..inner_len(inner_nodes[n]) :
                    /\ FirstKey(Tree, inner_nodes[n].child_id[i + 1]) # None
                    /\ inner_nodes[n].slot_key[i]
                         <= FirstKey(Tree, inner_nodes[n].child_id[i + 1])
          /\ \A k \in AllKeys :
                LET ri == insert(Tree, k, 1)
                    rr == remove(Tree, k)
                    L == descend(Tree, root, k, <<>>).leaf_id
                    new == Len(leaf_nodes) + 1
                IN  /\ Len(ri.T.leaf_nodes) = new =>
                            SepOf(ri.T, new) = {FirstKey(ri.T, LeafId(new))}
                    /\ rr.res = "RotateRight" =>
                            SepOf(rr.T, L) = {FirstKey(rr.T, LeafId(L))}
                    /\ rr.res = "RotateLeft" =>
                            SepOf(rr.T, leaf_nodes[L].next)
                                = {FirstKey(rr.T, LeafId(leaf_nodes[L].next))}

\* a tree with a separator below the first key of its right subtree, on
\* which one remove borrows from the left and one from the right
C11_Witness ==
    /\ Ok
    /\ Len(LeafChain(Tree)) >= 3
    /\ \E n \in subtree_inners(Tree, root) : \E i \in 1..inner_len(inner_nodes[n]) :
            inner_nodes[n].slot_key[i] < FirstKey(Tree, inner_nodes[n].child_id[i + 1])
    /\ \E k \in AllKeys : remove(Tree, k).res = "RotateRight"
    /\ \E k \in AllKeys : remove(Tree, k).res = "RotateLeft"

\* the keys stored below node_id
SubKeys(T, node_id) ==
    {flat_keys(T, subtree_leaves(T, node_id))[i] :
        i \in 1..Len(flat_keys(T, subtree_leaves(T, node_id)))}

\* every inner node of T has increasing separators that divide the keys of
\* its children
Separated(T) ==
    \A n \in subtree_inners(T, T.root) :
        LET node == T.inner_nodes[n]
        IN  /\ ~node.taken
            /\ Len(node.child_id) = inner_len(node) + 1
            /\ Increasing(node.slot_key)
            /\ \A i \in 1..inner_len(node) :
                /\ \A x \in SubKeys(T, node.child_id[i]) : x < node.slot_key[i]
                /\ \A x \in SubKeys(T, node.child_id[i + 1]) : x >= node.slot_key[i]

\* C12: in every reachable state, for each inner node the separator keys
\* are strictly increasing, every key stored in the subtree of child(i) is
\* less than key(i) and every key stored in the subtree of child(i+1) is at
\* least key(i), after leaf and inner splits, rotations and merges.
C12_Separated ==
    Ok => Separated(Tree)

\* a tree of three levels, made by the split of an inner node, on which a
\* remove empties an inner node that then borrows from its sibling, which
\* rewrites the root's separator
C12_Witness ==
    /\ Ok
    /\ height(Tree, root) = 3
    /\ \E k \in AllKeys :
        LET r == remove(Tree, k)
        IN  /\ r.res \in {"MergeLeft", "MergeRight"}
            /\ r.T.root = root
            /\ r.T.inner_nodes[root.id].slot_key # inner_nodes[root.id].slot_key
            /\ \A n \in subtree_inners(r.T, r.T.root) : inner_len(r.T.inner_nodes[n]) >= 1

Above(k) == {x \in AllKeys : ref_map[x] # None /\ x > k}
Below(k) == {x \in AllKeys : ref_map[x] # None /\ x < k}

\* c is a cursor on the least key of S, and no cursor when S is empty
CursorOnMin(c, S) ==
    IF S = {} THEN ~c.some ELSE c.some /\ c.k \in S /\ \A x \in S : c.k <= x

CursorOnMax(c, S) ==
    IF S = {} THEN ~c.some ELSE c.some /\ c.k \in S /\ \A x \in S : c.k >= x

StoredKeys == {x \in AllKeys : ref_map[x] # None}

\* r is the result of first() or last() for the wanted end of the key order
EndEntry(r, S, least) ==
    /\ r.res # "Panic"
    /\ (r.res = "None") <=> (S = {})
    /\ r.res = "Some" =>
         /\ r.ret[1] \in S
         /\ \A x \in S : IF least THEN r.ret[1] <= x ELSE r.ret[1] >= x
         /\ r.ret[2] = ref_map[r.ret[1]]

\* C15: first() returns the entry with the least key and last() the entry
\* with the greatest key, each None exactly when the tree holds no entry;
\* neither reads slot 0 or slot len - 1 of a leaf without entries.
C15_FirstLast ==
    Ok => /\ EndEntry(first(Tree), StoredKeys, TRUE)
          /\ EndEntry(last_kv(Tree), StoredKeys, FALSE)

\* a tree that had inner nodes and is down to one entry, which first() and
\* last() both return, and whose removal leaves an empty root leaf on which
\* both return None
C15_Witness ==
    /\ Ok /\ len = 1 /\ Len(inner_nodes) > 0
    /\ first(Tree).res = "Some" /\ last_kv(Tree).res = "Some"
    /\ \E k \in Keys :
         /\ leaf_len(remove(Tree, k).T.leaf_nodes[remove(Tree, k).T.root.id]) = 0
         /\ first(remove(Tree, k).T).res = "None"
         /\ last_kv(remove(Tree, k).T).res = "None"

\* the tree T owns, for each key m holds, the value m holds for it, in one
\* initialised slot, and owns nothing else: no leaf off the chain keeps an
\* entry and the chain has one entry per key of m
OwnedOnce(T, m) ==
    /\ Len(IterKeys(T)) = Len(IterValues(T))
    /\ Len(IterKeys(T)) = Cardinality({k \in AllKeys : m[k] # None})
    /\ \A k \in AllKeys : m[k] # None =>
         \E i \in 1..Len(IterKeys(T)) : IterKeys(T)[i] = k /\ IterValues(T)[i] = m[k]
    /\ \A id \in 1..Len(T.leaf_nodes) :
         (\A j \in 1..Len(LeafChain(T)) : LeafChain(T)[j] # id) =>
             leaf_len(T.leaf_nodes[id]) = 0

\* the call handed the caller the value m held for k, and the tree owns
\* what m2 holds
Released(r, k, m, m2) == r.ret = m[k] /\ OwnedOnce(r.T, m2)

\* dropping T drops each value m holds once and nothing else
DropsOnce(T, m) ==
    /\ Len(into_iter_drain(T)) = T.len
    /\ Len(into_iter_drain(T)) = Cardinality({k \in AllKeys : m[k] # None})
    /\ \A k \in AllKeys : m[k] # None =>
         \E i \in 1..Len(into_iter_drain(T)) :
             IterKeys(T)[i] = k /\ into_iter_drain(T)[i] = m[k]

\* C16: every value handed to insert is released exactly once. The tree
\* owns, in exactly one initialised slot, the value last inserted for each
\* stored key and nothing else, whatever splits, rotations and merges moved
\* it; remove hands that value back and an updating insert hands back the
\* value it replaces, after which the tree no longer owns it; dropping the
\* tree (drop, clear, into_iter) drops each owned value once, so a tree of
\* N entries drops exactly N values.
C16_ReleasedOnce ==
    Ok => /\ OwnedOnce(Tree, ref_map)
          /\ DropsOnce(Tree, ref_map)
          /\ OwnedOnce(clear(Tree).T, [k \in AllKeys |-> None])
          /\ \A k \in Keys :
               /\ Released(remove(Tree, k), k, ref_map, [ref_map EXCEPT ![k] = None])
               /\ \A v \in Vals :
                    Released(insert(Tree, k, v), k, ref_map, [ref_map EXCEPT ![k] = v])

\* a tree of at least three entries, one of its leaves merged away before,
\* in which a remove merges two leaves and an insert replaces a value by
\* another one, and whose drop drains three values or more
C16_Witness ==
    /\ Ok /\ len >= 3
    /\ \E id \in 1..Len(leaf_nodes) : leaf_nodes[id].taken
    /\ Len(into_iter_drain(Tree)) = len
    /\ \E k \in Keys : remove(Tree, k).res \in {"MergeLeft", "MergeRight"}
    /\ \E k \in Keys, v \in Vals :
         ref_map[k] \notin {None, v} /\ insert(Tree, k, v).ret = ref_map[k]

\* the sequences of distinct keys of Keys
KeySeqs ==
    {s \in UNION {[1..n -> Keys] : n \in 0..MaxKey} :
        \A i, j \in 1..Len(s) : i # j => s[i] # s[j]}

\* T after insert(s[1], v), ..., insert(s[Len(s)], v)
RECURSIVE InsertAll(_, _, _)
InsertAll(T, s, v) ==
    IF s = <<>> THEN T ELSE InsertAll(insert(T, Head(s), v).T, Tail(s), v)

\* t holds the keys of s under v and nothing else
HoldsAll(t, s, v) ==
    /\ t.panic = "none"
    /\ t.len = Len(s)
    /\ \A i \in 1..Len(s) : get(t, s[i]).ret = v
    /\ \A k \in Keys : (\A i \in 1..Len(s) : s[i] # k) => get(t, k).ret = None

\* c is an empty tree on which no key hits the leaf cache
EmptyTree(c) ==
    /\ c.panic = "none"
    /\ c.len = 0
    /\ IterKeys(c) = <<>>
    /\ \A k \in AllKeys : try_cache(c, k) = None
    /\ \A k \in AllKeys : get(c, k).ret = None /\ get(c, k).res # "Panic"

\* C17: clear() on any reachable tree leaves it empty: len() = 0, get(k) is
\* None for every k and no key hits the leaf cache; and the tree clear()
\* leaves is usable like a new one: inserting N distinct keys into it, in
\* any order, gives len() = N with each key found.
C17_Clear ==
    Ok => /\ EmptyTree(clear(Tree).T)
          /\ Tree = clear(Tree).T =>
                \A s \in KeySeqs, v \in Vals : HoldsAll(InsertAll(Tree, s, v), s, v)

\* a tree of two levels and three entries or more whose leaf cache hits for
\* a key, on a leaf other than the first one of the store, and which
\* clear() replaces by another tree
C17_Witness ==
    /\ Ok /\ len >= 3 /\ root.kind = "Inner"
    /\ \E k \in Keys : try_cache(Tree, k) # None /\ try_cache(Tree, k) # 1
    /\ clear(Tree).T # Tree
    /\ clear(Tree).T.len = 0

\* C18: BPlusTreeSet agrees with a reference set under any sequence of
\* calls: insert(k) is true exactly when k was not yet a member and false,
\* with len unchanged, when it was; remove(k) is true exactly when k was a
\* member; contains(k) is true exactly when k is a member; len() is the
\* number of distinct members.
C18_SetAgrees ==
    Ok => /\ set_len(Tree) = Cardinality(StoredKeys)
          /\ \A k \in Keys :
               /\ set_insert(Tree, k).ret = (ref_map[k] = None)
               /\ set_len(set_insert(Tree, k).T)
                     = IF ref_map[k] = None THEN set_len(Tree) + 1 ELSE set_len(Tree)
               /\ set_remove(Tree, k).ret = (ref_map[k] # None)
               /\ set_len(set_remove(Tree, k).T)
                     = IF ref_map[k] # None THEN set_len(Tree) - 1 ELSE set_len(Tree)
               /\ set_contains(Tree, k).ret = (ref_map[k] # None)

\* a set of three members over more than one leaf, after some leaf was
\* merged away, where insert of a member answers false, insert of the
\* missing key answers true, and remove answers true and false alike
C18_Witness ==
    /\ Ok /\ set_len(Tree) = 3 /\ root.kind = "Inner"
    /\ \E id \in 1..Len(leaf_nodes) : leaf_nodes[id].taken
    /\ \E k \in Keys : ~set_insert(Tree, k).ret /\ set_remove(Tree, k).ret
    /\ \E k \in Keys : set_insert(Tree, k).ret /\ ~set_remove(Tree, k).ret
                         /\ ~set_contains(Tree, k).ret

\* the values of the children of inner node n, left to right
ChildArguments(T, n) ==
    [i \in 1..Len(T.inner_nodes[n].child_id) |-> argument_of(T, T.inner_nodes[n].child_id[i])]

\* C19: with the GroupCount argument, after any inserts and removes the
\* group_count() of the root's value is the number of distinct groups among
\* the stored keys, and the root's value is Zero when the tree is empty.
C19_GroupCount ==
    Ok => /\ group_count(root_argument(Tree))
               = Cardinality({from_ref(k) : k \in StoredKeys})
          /\ StoredKeys = {} => is_zero(root_argument(Tree))

\* a tree of three levels, some leaf merged away before, in which two
\* neighbouring children both hold several groups and share the group at
\* their seam, and the count at the root is less than the sum of the
\* children's counts
C19_Witness ==
    /\ Ok /\ height(Tree, root) = 3
    /\ \E id \in 1..Len(leaf_nodes) : leaf_nodes[id].taken
    /\ \E n \in subtree_inners(Tree, root) :
         \E i \in 1..inner_len(inner_nodes[n]) :
              /\ ChildArguments(Tree, n)[i].tag = "Multiple"
              /\ ChildArguments(Tree, n)[i + 1].tag = "Multiple"
              /\ ChildArguments(Tree, n)[i].max_group[1]
                    = ChildArguments(Tree, n)[i + 1].min_group[1]
    /\ group_count(root_argument(Tree)) >= 3

\* the stored keys of group g
Members(g) == {k \in StoredKeys : from_ref(k) = g}

\* r is what the search for the i-th key of S has to return
IthOf(r, S, i) ==
    IF Cardinality(S) <= i THEN ~r.found
    ELSE /\ r.found
         /\ r.k \in S
         /\ Cardinality({x \in S : x < r.k}) = i
         /\ r.v = ref_map[r.k]

\* C20: with the GroupCount argument, for every query (g, i) the search by
\* locate_in_inner and locate_in_leaf returns the entry of the i-th
\* (0-based, in key order) stored key of group g, and None exactly when
\* fewer than i + 1 stored keys are of group g, for every shape of tree,
\* also when a group spans leaves and when a leaf holds three groups.
C20_GroupSearch ==
    Ok => \A g \in Groups, i \in Offsets : IthOf(get_by_argument(Tree, g, i), Members(g), i)

\* the groups of the keys of the first n chunks
GroupsOf(chunks, n) == {from_ref(chunks[c][j]) : <<c, j>> \in {p \in (1..n) \X (1..MaxFoldKey) : p[2] <= Len(chunks[p[1]])}}

\* the group count of l merged with r: the sum, less one when both hold
\* keys and the max group of l is the min group of r
MergedCount(l, r) ==
    group_count(l) + group_count(r)
      - (IF ~is_zero(l) /\ ~is_zero(r) /\ l.max_group[1] = r.min_group[1] THEN 1 ELSE 0)

\* C22: for a sorted key sequence cut into consecutive chunks, from_inner on
\* the chunks' from_leaf values has the group_count of the whole sequence,
\* its number of distinct groups; each merge_with adds the two counts and
\* deducts one exactly when the left max group is the right min group, and
\* Zero is the identity of merge_with on either side.
C22_MergeCounts ==
    LET arguments == [c \in 1..Len(fold.chunks) |-> from_leaf(fold.chunks[c])]
    IN  /\ group_count(fold.accumulated) = Cardinality(GroupsOf(fold.chunks, fold.idx))
        /\ group_count(from_inner(arguments))
             = Cardinality(GroupsOf(fold.chunks, Len(fold.chunks)))
        /\ \A c \in 1..Len(arguments) :
             /\ group_count(merge_with(fold.accumulated, arguments[c]))
                  = MergedCount(fold.accumulated, arguments[c])
             /\ merge_with(GroupCount_Zero, arguments[c]) = arguments[c]
             /\ merge_with(arguments[c], GroupCount_Zero) = arguments[c]

\* the fold has run over three chunks of keys, the first two of several
\* groups with the same group at their seam, the last of one group that the
\* second chunk ends in
C22_Witness ==
    /\ Len(fold.chunks) = MaxChunks /\ fold.idx = MaxChunks
    /\ from_leaf(fold.chunks[1]).tag = "Multiple"
    /\ from_leaf(fold.chunks[2]).tag = "Multiple"
    /\ from_leaf(fold.chunks[3]).tag = "One"
    /\ from_leaf(fold.chunks[1]).max_group[1] = from_leaf(fold.chunks[2]).min_group[1]
    /\ from_leaf(fold.chunks[2]).max_group[1] = from_leaf(fold.chunks[3]).min_group[1]
    /\ group_count(fold.accumulated) = 3

\* ---- C23
\* the entries of leaf without the item of key k
OldEntries(leaf, k) ==
    [keys |-> SelectSeq(leaf.slot_key, LAMBDA x : x # k),
     vals |-> SelectSeq(leaf.slot_value, LAMBDA x : x # k)]

\* what is expected of sp, the two leaves split_new_leaf makes of the full
\* leaf for the item (k, k) at slot idx, with p the split point
SplitAsClaimed(leaf, idx, k, sp, p, N) ==
    /\ OldEntries(sp.self, k).keys = SubSeq(leaf.slot_key, 1, p)
    /\ OldEntries(sp.self, k).vals = SubSeq(leaf.slot_value, 1, p)
    /\ OldEntries(sp.new, k).keys = SubSeq(leaf.slot_key, p + 1, N)
    /\ OldEntries(sp.new, k).vals = SubSeq(leaf.slot_value, p + 1, N)
    /\ IF idx < p
       THEN /\ leaf_len(sp.self) = p + 1 /\ leaf_len(sp.new) = N - p
            /\ sp.self.slot_key[idx + 1] = k /\ sp.self.slot_value[idx + 1] = k
       ELSE /\ leaf_len(sp.self) = p /\ leaf_len(sp.new) = N - p + 1
            /\ sp.new.slot_key[idx - p + 1] = k /\ sp.new.slot_value[idx - p + 1] = k
    /\ Increasing(sp.self.slot_key) /\ Increasing(sp.new.slot_key)
    /\ sp.self.slot_key \o sp.new.slot_key
          = SortedSeq({leaf.slot_key[i] : i \in 1..N} \cup {k})
    /\ sp.self.slot_value \o sp.new.slot_value = sp.self.slot_key \o sp.new.slot_key
    /\ insert_leaf(Tree, 1, k, k).res = "Split"
    /\ insert_leaf(Tree, 1, k, k).key = sp.new.slot_key[1]

\* C23: split_new_leaf on a full leaf of LN entries, for every insertion
\* slot 0..LN: the original keeps its first p = LN div 2 old entries and the
\* new leaf gets the old entries [p, LN); the new item is in the original
\* (at idx) iff idx < p, else in the new leaf at idx - p; both leaves are
\* sorted and together hold the LN old entries and the new one; the key
\* insert_leaf hands to the parent is the first key of the new leaf.
C23_SplitNewLeaf ==
    Len(leaf_nodes) = 1 =>
        \A k \in SplitKeys :
            ref_map[k] = None =>
                SplitAsClaimed(leaf_nodes[1], locate_child_idx(leaf_nodes[1], k).idx, k,
                               split_new_leaf(leaf_nodes[1],
                                              locate_child_idx(leaf_nodes[1], k).idx,
                                              k, k, 2, 1, leaf_n),
                               leaf_n \div 2, leaf_n)

\* a full leaf of odd capacity has been split with the new item going into
\* the original leaf, which now holds one entry more than the split point
C23_Witness ==
    /\ Len(leaf_nodes) = 2
    /\ leaf_n = MaxSplitLeafN
    /\ len = leaf_n + 1
    /\ leaf_len(leaf_nodes[1]) = leaf_n \div 2 + 1
    /\ leaf_len(leaf_nodes[2]) = leaf_n - leaf_n \div 2
    /\ leaf_nodes[1].next = 2 /\ leaf_nodes[2].prev = 1

\* ---- C24
\* the sizes of the two leaves of a split of a full leaf of N entries, and
\* both leaves at or above the minimum that able_to_lend and delete use
SplitSizes(sp, N) ==
    /\ leaf_len(sp.self) \in {N \div 2, N \div 2 + 1}
    /\ leaf_len(sp.new) \in {N - N \div 2, N - N \div 2 + 1}
    /\ leaf_len(sp.self) + leaf_len(sp.new) = N + 1
    /\ leaf_len(sp.self) >= minimum_size(N)
    /\ leaf_len(sp.new) >= minimum_size(N)

\* C24: right after a leaf split, for every leaf capacity LN and every
\* insertion slot, the left leaf holds LN div 2 or LN div 2 + 1 entries, the
\* right leaf LN - LN div 2 or one more, and both hold at least
\* minimum_size entries.
C24_SplitSizes ==
    Len(leaf_nodes) = 1 =>
        \A k \in SplitKeys :
            ref_map[k] = None =>
                SplitSizes(split_new_leaf(leaf_nodes[1],
                                          locate_child_idx(leaf_nodes[1], k).idx,
                                          k, k, 2, 1, leaf_n),
                           leaf_n)

\* the same for the leaf capacities of two and more
C24_SplitSizesFromTwo == leaf_n >= 2 => C24_SplitSizes

\* ---- C25
\* leaf as it is after the value of key k, if it holds k, is replaced by v
WithValue(leaf, k, v) ==
    IF ~leaf.taken /\ locate_child_idx(leaf, k).ok
    THEN [leaf EXCEPT !.slot_value[locate_child_idx(leaf, k).idx + 1] = v]
    ELSE leaf

\* r, the result of insert(k, v) on T, changed the value of k and nothing
\* else of the tree's structure, and took the fast path only for a leaf
\* that is not full
UpdatedInPlace(T, r, k, v, cached) ==
    /\ r.res = "Updated"
    /\ r.ret = ref_map[k]
    /\ r.T.panic = "none"
    /\ r.T.len = T.len
    /\ r.T.root = T.root
    /\ r.T.inner_nodes = T.inner_nodes
    /\ Len(r.T.leaf_nodes) = Len(T.leaf_nodes)
    /\ \A i \in 1..Len(T.leaf_nodes) : r.T.leaf_nodes[i] = WithValue(T.leaf_nodes[i], k, v)
    /\ get(r.T, k).ret = v
    /\ r.path = "fast" <=> (cached # None /\ ~leaf_is_full(T.leaf_nodes[cached], T.leaf_n))

\* C25: insert(k, v) for a key k that is stored splits no node and allocates
\* none: it returns the old value and replaces it in place, and len, the
\* keys and links of every leaf, every inner node and the root stay as they
\* were, also when the leaf of k is full, where the cache fast path is not
\* taken and the descent ends in Updated.
C25_UpdateInPlace ==
    Ok => \A k \in Keys : \A v \in Vals :
            ref_map[k] # None =>
                UpdatedInPlace(Tree, insert(Tree, k, v), k, v, try_cache(Tree, k))

\* a stored key whose leaf is full, cached and under an inner root
C25_Witness ==
    /\ Ok
    /\ root.kind = "Inner"
    /\ \E k \in Keys :
          /\ ref_map[k] # None
          /\ try_cache(Tree, k) # None
          /\ leaf_is_full(leaf_nodes[try_cache(Tree, k)], leaf_n)
          /\ insert(Tree, k, MaxVal).path = "descent"
          /\ ref_map[k] # MaxVal

\* ---- C26
\* the leaf the claim expects in the cache after a descent insert of the
\* absent key k into the leaf id of T: after a split the new leaf when the
\* insertion slot is at or past the split point, else the leaf id itself
ExpectedCached(T, id, k) ==
    IF leaf_is_full(T.leaf_nodes[id], T.leaf_n)
       /\ locate_child_idx(T.leaf_nodes[id], k).idx >= T.leaf_n \div 2
    THEN Len(T.leaf_nodes) + 1
    ELSE id

\* r, the result of insert(k, v) of an absent k on T along the descent,
\* left the leaf that holds k in the cache, and get(k) hits it
CachedAfterInsert(T, r, k, v) ==
    /\ r.T.panic = "none"
    /\ r.T.leaf_cache.leaf_id = ExpectedCached(T, descend(T, T.root, k, <<>>).leaf_id, k)
    /\ r.T.leaf_cache.leaf_id \in 1..Len(r.T.leaf_nodes)
    /\ ~r.T.leaf_nodes[r.T.leaf_cache.leaf_id].taken
    /\ locate_child_idx(r.T.leaf_nodes[r.T.leaf_cache.leaf_id], k).ok
    /\ (Len(r.T.leaf_nodes) > Len(T.leaf_nodes))
         = leaf_is_full(T.leaf_nodes[descend(T, T.root, k, <<>>).leaf_id], T.leaf_n)
    /\ get(r.T, k).path = "fast"
    /\ get(r.T, k).ret = v
    /\ get(r.T, k).T = r.T

\* C26: after an insert of a new key k that goes through the descent, the
\* cached leaf is the leaf that now holds k: the leaf inserted into when it
\* did not split, and after a split the new right leaf iff the insertion
\* slot is at least LN div 2, else the original; a get(k) right after it is
\* a cache hit and returns the value.
C26_CachedAfterInsert ==
    Ok => \A k \in Keys : \A v \in Vals :
            (ref_map[k] = None /\ insert(Tree, k, v).path = "descent")
                => CachedAfterInsert(Tree, insert(Tree, k, v), k, v)

\* a new key whose insert splits a full leaf below an inner root and lands
\* in the new right leaf, which the cache then names
C26_Witness ==
    /\ Ok
    /\ root.kind = "Inner"
    /\ Len(leaf_nodes) < MaxLeafIds
    /\ \E k \in Keys :
          /\ ref_map[k] = None
          /\ insert(Tree, k, 1).path = "descent"
          /\ Len(insert(Tree, k, 1).T.leaf_nodes) = Len(leaf_nodes) + 1
          /\ insert(Tree, k, 1).T.leaf_cache.leaf_id = Len(leaf_nodes) + 1
          /\ leaf_cache.leaf_id # None

\* ---- C27
\* the node id names a slot the store of T does not have yet
FreshIn(T, node_id) ==
    IF node_id.kind = "Leaf" THEN node_id.id > Len(T.leaf_nodes)
    ELSE node_id.id > Len(T.inner_nodes)

\* the node root of T is full
RootIsFull(T) ==
    IF T.root.kind = "Leaf" THEN leaf_is_full(T.leaf_nodes[T.root.id], T.leaf_n)
    ELSE inner_is_full(T.inner_nodes[T.root.id], T.inner_n)

\* r, the result of an insert on T, and d, what descend_insert handed back
\* from the old root: the root moved exactly when a split came out of the
\* old root, to a new inner node of one key over the old root and the new
\* node
RootGrowth(T, r, d) ==
    /\ r.T.panic = "none"
    /\ (r.T.root # T.root) = (r.path = "descent" /\ d.res = "Split")
    /\ r.T.root # T.root =>
          /\ RootIsFull(T)
          /\ r.T.root.kind = "Inner"
          /\ FreshIn(T, r.T.root)
          /\ r.T.root.id = Len(r.T.inner_nodes)
          /\ r.T.inner_nodes[r.T.root.id].slot_key = <<d.key>>
          /\ r.T.inner_nodes[r.T.root.id].child_id = <<T.root, d.child>>
          /\ d.child.kind = T.root.kind
          /\ FreshIn(T, d.child)
          /\ d.key = FirstKey(r.T, d.child) \/ d.child.kind = "Inner"
          /\ height(r.T, r.T.root) = height(T, T.root) + 1
    /\ r.T.root = T.root => height(r.T, r.T.root) = height(T, T.root)

\* C27: insert changes the root only when a split comes out of the old
\* root; the new root is then a new inner node with exactly one key, the
\* promoted one, and two children, the old root on the left and the new
\* node on the right; in every other case the root id stays as it was.
C27_RootGrowth ==
    Ok => \A k \in DeepKeys : \A v \in Vals :
            RootGrowth(Tree, insert(Tree, k, v), descend_insert(Tree, root, k, v))

\* an insert that splits a full inner root: the new root is put over two
\* inner nodes
C27_Witness ==
    /\ Ok
    /\ root.kind = "Inner"
    /\ inner_is_full(inner_nodes[root.id], inner_n)
    /\ \E k \in DeepKeys :
          /\ ref_map[k] = None
          /\ insert(Tree, k, 1).T.root # root
          /\ insert(Tree, k, 1).T.inner_nodes[insert(Tree, k, 1).T.root.id].child_id[1] = root
          /\ insert(Tree, k, 1).T.inner_nodes[insert(Tree, k, 1).T.root.id].child_id[2].kind = "Inner"

\* ---- C28
\* the keys of an inner node as a set
KeySet(node) == {node.slot_key[i] : i \in 1..inner_len(node)}

\* after is the node before with key and right_child registered at the
\* slot of its split child
RegisteredAt(before, after, child_idx, key, right_child) ==
    /\ after.slot_key = slice_insert(before.slot_key, child_idx, key)
    /\ after.child_id = slice_insert(before.child_id, child_idx + 1, right_child)
    /\ after.child_id[child_idx + 1] = before.child_id[child_idx + 1]
    /\ after.child_id[child_idx + 2] = right_child
    /\ Increasing(after.slot_key)

\* left, right and promoted are what the split of the full node before
\* made of it, key and right_child: promoted is in neither node and between
\* their keys, the keys and the children are those of before with key and
\* right_child registered, in order, and both nodes hold bound keys or more
InnerSplitAsClaimed(before, child_idx, key, right_child, left, right, promoted, bound) ==
    /\ promoted \notin KeySet(left) \cup KeySet(right)
    /\ \A x \in KeySet(left) : x < promoted
    /\ \A x \in KeySet(right) : promoted < x
    /\ left.slot_key \o <<promoted>> \o right.slot_key
          = slice_insert(before.slot_key, child_idx, key)
    /\ inner_len(left) + inner_len(right) = inner_len(before) + 1 - 1
    /\ left.child_id \o right.child_id
          = slice_insert(before.child_id, child_idx + 1, right_child)
    /\ Len(left.child_id) = inner_len(left) + 1
    /\ Len(right.child_id) = inner_len(right) + 1
    /\ inner_len(left) >= bound
    /\ inner_len(right) >= bound

\* one step of the propagation loop, step, taken from r at the inner node
\* id, is as expected: a registration that ends the propagation when the
\* node is not full, a split that goes on when it is
StepAsClaimed(r, id, child_idx, step, bound) ==
    IF ~inner_is_full(r.T.inner_nodes[id], r.T.inner_n)
    THEN /\ step.res = "Inserted"
         /\ Len(step.T.inner_nodes) = Len(r.T.inner_nodes)
         /\ \A n \in 1..Len(r.T.inner_nodes) :
               n # id => step.T.inner_nodes[n] = r.T.inner_nodes[n]
         /\ RegisteredAt(r.T.inner_nodes[id], step.T.inner_nodes[id], child_idx,
                         r.key, r.child)
    ELSE /\ step.res = "Split"
         /\ step.child = InnerId(Len(r.T.inner_nodes) + 1)
         /\ Len(step.T.inner_nodes) = Len(r.T.inner_nodes) + 1
         /\ InnerSplitAsClaimed(r.T.inner_nodes[id], child_idx, r.key, r.child,
                                step.T.inner_nodes[id], step.T.inner_nodes[step.child.id],
                                step.key, bound)

\* every step of the propagation of r up the stack is as expected
RECURSIVE PropagationAsClaimed(_, _, _)
PropagationAsClaimed(r, stack, bound) ==
    IF r.res # "Split" \/ stack = <<>>
    THEN TRUE
    ELSE /\ StepAsClaimed(r, stack[Len(stack)][1], stack[Len(stack)][2],
                          insert_propagate(r, <<stack[Len(stack)]>>), bound)
         /\ PropagationAsClaimed(insert_propagate(r, <<stack[Len(stack)]>>),
                                 SubSeq(stack, 1, Len(stack) - 1), bound)

\* the propagation of the insert of every absent key, from the leaf the
\* descent reaches, is as expected with the given bound on the halves
InsertPropagation(bound) ==
    Ok => \A k \in DeepKeys :
            ref_map[k] = None =>
                PropagationAsClaimed(
                    insert_leaf(Tree, descend(Tree, root, k, <<>>).leaf_id, k, 1),
                    descend(Tree, root, k, <<>>).stack, bound)

SiblingLen(T, node, idx) ==
    IF idx \in 0..inner_len(node) THEN leaf_len(T.leaf_nodes[child_at(node, idx).id]) ELSE 0

\* the child idx of node exists and holds more than the leaf minimum
CanLend(T, node, idx) ==
    idx \in 0..inner_len(node) /\ SiblingLen(T, node, idx) > minimum_size(T.leaf_n)

\* the fix is the one the table gives for the two siblings
FixAsClaimed(fix, has_prev, p_can, p_len, n_can, n_len) ==
    /\ (p_can /\ n_can /\ p_len > n_len) => fix = "RotateRight"
    /\ (p_can /\ n_can /\ n_len > p_len) => fix = "RotateLeft"
    /\ (p_can /\ n_can) => fix \in {"RotateRight", "RotateLeft"}
    /\ (p_can /\ ~n_can) => fix = "RotateRight"
    /\ (~p_can /\ n_can) => fix = "RotateLeft"
    /\ (~p_can /\ ~n_can) => fix = (IF has_prev THEN "MergeLeft" ELSE "MergeRight")
    /\ fix \in {"MergeLeft", "MergeRight"} => (~p_can /\ ~n_can)

\* T2 is T after the named fix on the child idx of node: a rotation took
\* one entry from the sibling it names, a merge gave up the right leaf of
\* the pair
FixDone(T, T2, fix, node, idx) ==
    /\ fix = "RotateRight" =>
          /\ SiblingLen(T2, node, idx - 1) = SiblingLen(T, node, idx - 1) - 1
          /\ SiblingLen(T2, node, idx) = SiblingLen(T, node, idx)
    /\ fix = "RotateLeft" =>
          /\ SiblingLen(T2, node, idx + 1) = SiblingLen(T, node, idx + 1) - 1
          /\ SiblingLen(T2, node, idx) = SiblingLen(T, node, idx)
    /\ fix = "MergeLeft" =>
          /\ T2.leaf_nodes[child_at(node, idx).id].taken
          /\ SiblingLen(T2, node, idx - 1)
                = SiblingLen(T, node, idx - 1) + SiblingLen(T, node, idx) - 1
    /\ fix = "MergeRight" =>
          /\ T2.leaf_nodes[child_at(node, idx + 1).id].taken
          /\ SiblingLen(T2, node, idx)
                = SiblingLen(T, node, idx) - 1 + SiblingLen(T, node, idx + 1)

\* r, the result of remove(k) on T for a stored k whose leaf, the child idx
\* of node, cannot lend
UnderSizeFixed(T, r, node, idx) ==
    /\ r.T.panic = "none"
    /\ r.path = "descent"
    /\ FixAsClaimed(r.res, idx > 0,
                    CanLend(T, node, idx - 1), SiblingLen(T, node, idx - 1),
                    CanLend(T, node, idx + 1), SiblingLen(T, node, idx + 1))
    /\ FixDone(T, r.T, r.res, node, idx)

\* the stored keys whose removal leaves their leaf, a child of the root,
\* under the leaf minimum
UnderSizeKeys ==
    {k \in WideKeys :
        /\ ref_map[k] # None
        /\ root.kind = "Inner"
        /\ ~leaf_able_to_lend(leaf_nodes[descend(Tree, root, k, <<>>).leaf_id], leaf_n)}

\* C29: the fix handle_leaf_under_size chooses: when both siblings can lend
\* it rotates from the larger one (from prev, rotate-right, when prev is
\* larger; from next, rotate-left, when next is larger); when exactly one
\* can lend it rotates from that one; when neither can, a missing sibling
\* counting as unable, it merges with the left sibling if there is one and
\* else with the right; it never merges while a sibling can lend.
C29_FixSelection ==
    Ok => \A k \in UnderSizeKeys :
            UnderSizeFixed(Tree, remove(Tree, k), inner_nodes[root.id],
                           descend(Tree, root, k, <<>>).stack[1][2])

\* a leaf at the minimum between two siblings that can both lend, the
\* previous one the larger
C29_Witness ==
    /\ Ok
    /\ root.kind = "Inner"
    /\ \E k \in UnderSizeKeys :
          /\ descend(Tree, root, k, <<>>).stack[1][2] = 1
          /\ CanLend(Tree, inner_nodes[root.id], 0)
          /\ CanLend(Tree, inner_nodes[root.id], 2)
          /\ SiblingLen(Tree, inner_nodes[root.id], 0) > SiblingLen(Tree, inner_nodes[root.id], 2)
          /\ remove(Tree, k).res = "RotateRight"
          /\ len < MaxWideKey

\* ---- C30
\* the entries of a leaf as (key, value) pairs, in order
Entries(leaf) == [i \in 1..leaf_len(leaf) |-> <<leaf.slot_key[i], leaf.slot_value[i]>>]

\* the entries of a leaf without the one of key k
EntriesWithout(leaf, k) == SelectSeq(Entries(leaf), LAMBDA e : e[1] # k)

\* T2 is T after a rotation between the children slot and slot + 1 of the
\* node id, lender giving one entry to borrower, which lost the entry of k;
\* kv is the pair handed back
Rotated(T, T2, id, slot, lender, borrower, k, kv) ==
    /\ leaf_len(T2.leaf_nodes[lender]) = leaf_len(T.leaf_nodes[lender]) - 1
    /\ leaf_len(T2.leaf_nodes[lender]) >= minimum_size(T.leaf_n)
    /\ leaf_len(T2.leaf_nodes[borrower]) = leaf_len(T.leaf_nodes[borrower])
    /\ kv = <<k, ref_map[k]>>
    /\ kv = Entries(T.leaf_nodes[borrower])[locate_child_idx(T.leaf_nodes[borrower], k).idx + 1]
    /\ T2.inner_nodes[id].slot_key[slot + 1]
          = T2.leaf_nodes[child_at(T.inner_nodes[id], slot + 1).id].slot_key[1]
    /\ T2.inner_nodes[id].child_id = T.inner_nodes[id].child_id
    /\ Increasing(T2.leaf_nodes[lender].slot_key)
    /\ Increasing(T2.leaf_nodes[borrower].slot_key)
    /\ IF lender = child_at(T.inner_nodes[id], slot).id
       THEN Entries(T2.leaf_nodes[lender]) \o Entries(T2.leaf_nodes[borrower])
               = Entries(T.leaf_nodes[lender]) \o EntriesWithout(T.leaf_nodes[borrower], k)
       ELSE Entries(T2.leaf_nodes[borrower]) \o Entries(T2.leaf_nodes[lender])
               = EntriesWithout(T.leaf_nodes[borrower], k) \o Entries(T.leaf_nodes[lender])

\* ri, the result of remove_inner for k in the child idx of the root node
\* of T, is as expected when it rotated
RotationAsClaimed(T, ri, node, idx, k) ==
    /\ ri.fix = "RotateRight" =>
          Rotated(T, ri.T, T.root.id, idx - 1, child_at(node, idx - 1).id,
                  child_at(node, idx).id, k, ri.kv)
    /\ ri.fix = "RotateLeft" =>
          Rotated(T, ri.T, T.root.id, idx, child_at(node, idx + 1).id,
                  child_at(node, idx).id, k, ri.kv)

\* C30: after a leaf rotation the lender holds one entry less and still at
\* least the minimum, the borrower holds as many as before, the pair handed
\* back is the entry that was at the delete index, and the parent's
\* separator between the two leaves is the first key of the right leaf as
\* it is after the rotation.
C30_Rotation ==
    Ok => \A k \in UnderSizeKeys :
            RotationAsClaimed(Tree, remove_inner(Tree, root.id, k), inner_nodes[root.id],
                              descend(Tree, root, k, <<>>).stack[1][2], k)

\* a rotate-left that takes the first entry of a next sibling of three and
\* a rotate-right that takes the last entry of a previous sibling are both
\* at hand
C30_Witness ==
    /\ Ok
    /\ root.kind = "Inner"
    /\ \E k \in UnderSizeKeys : remove(Tree, k).res = "RotateLeft"
    /\ \E k \in UnderSizeKeys :
          /\ remove(Tree, k).res = "RotateRight"
          /\ remove(Tree, k).ret = ref_map[k]
    /\ len < MaxWideKey
    /\ leaf_cache.leaf_id # None

\* ---- C31
\* T2 is T after the merge of the children slot and slot + 1 of the node
\* id, leaves, with the entry of k deleted; res and kv are what the merge
\* handed back
LeavesMerged(T, T2, id, slot, left, right, k, res, kv) ==
    /\ Entries(T2.leaf_nodes[left])
          = SelectSeq(Entries(T.leaf_nodes[left]) \o Entries(T.leaf_nodes[right]),
                      LAMBDA e : e[1] # k)
    /\ leaf_len(T2.leaf_nodes[left])
          = leaf_len(T.leaf_nodes[left]) + leaf_len(T.leaf_nodes[right]) - 1
    /\ Increasing(T2.leaf_nodes[left].slot_key)
    /\ kv = <<k, ref_map[k]>>
    /\ T2.leaf_nodes[right].taken
    /\ try_get_leaf(T2, right) = None
    /\ T2.leaf_nodes[left].next = T.leaf_nodes[right].next
    /\ T2.leaf_nodes[left].prev = T.leaf_nodes[left].prev
    /\ T.leaf_nodes[right].next # None =>
          T2.leaf_nodes[T.leaf_nodes[right].next].prev = left
    /\ T2.inner_nodes[id].slot_key = slice_remove(T.inner_nodes[id].slot_key, slot)
    /\ T2.inner_nodes[id].child_id = slice_remove(T.inner_nodes[id].child_id, slot + 1)
    /\ T2.inner_nodes[id].child_id[slot + 1] = LeafId(left)
    /\ LeafId(right) \notin {T2.inner_nodes[id].child_id[i] :
                                i \in 1..Len(T2.inner_nodes[id].child_id)}
    /\ (res = "InnerUnderSize")
          = (inner_len(T2.inner_nodes[id]) < inner_minimum_size(T.inner_n))
    /\ res \in {"Done", "InnerUnderSize"}

\* ri, the result of remove_inner for k in the child idx of the root node
\* of T, is as expected when it merged two leaves
MergeAsClaimed(T, ri, node, idx, k) ==
    /\ ri.fix = "MergeLeft" =>
          LeavesMerged(T, ri.T, T.root.id, idx - 1, child_at(node, idx - 1).id,
                       child_at(node, idx).id, k, ri.res, ri.kv)
    /\ ri.fix = "MergeRight" =>
          LeavesMerged(T, ri.T, T.root.id, idx, child_at(node, idx).id,
                       child_at(node, idx + 1).id, k, ri.res, ri.kv)

\* C31: after a leaf merge, merge-left deleting from the right leaf or
\* merge-right deleting from the left leaf, the surviving left leaf holds in
\* order all entries of both leaves but the deleted one, which is handed
\* back; the absorbed right leaf is taken out of the store; the parent
\* loses the separator at the left leaf's slot and the child pointer to the
\* absorbed leaf and keeps its other keys and children in order; the result
\* is InnerUnderSize iff the parent is below its minimum.
C31_LeafMerge ==
    Ok => \A k \in UnderSizeKeys :
            MergeAsClaimed(Tree, remove_inner(Tree, root.id, k), inner_nodes[root.id],
                           descend(Tree, root, k, <<>>).stack[1][2], k)

\* a root over three leaves none of which can lend: removing from the
\* first merges it with its right sibling, removing from the second merges
\* it into the first, and the parent keeps one separator
C31_Witness ==
    /\ Ok
    /\ root.kind = "Inner"
    /\ inner_len(inner_nodes[root.id]) = 2
    /\ \E k \in UnderSizeKeys : remove_inner(Tree, root.id, k).fix = "MergeRight"
    /\ \E k \in UnderSizeKeys :
          /\ remove_inner(Tree, root.id, k).fix = "MergeLeft"
          /\ remove_inner(Tree, root.id, k).res = "Done"

\* ---- C32
\* the inner node that is child idx of the inner node id of T
InnerChild(T, id, idx) == T.inner_nodes[child_at(T.inner_nodes[id], idx).id]

\* the child idx of the inner node id exists and holds more keys than the
\* inner minimum
InnerCanLend(T, id, idx) ==
    /\ idx \in 0..inner_len(T.inner_nodes[id])
    /\ inner_len(InnerChild(T, id, idx)) > inner_minimum_size(T.inner_n)

\* T2 is T but for the inner nodes named in ids
SameBut(T, T2, ids) ==
    /\ T2.leaf_nodes = T.leaf_nodes
    /\ T2.root = T.root
    /\ Len(T2.inner_nodes) = Len(T.inner_nodes)
    /\ \A n \in 1..Len(T.inner_nodes) : n \notin ids => T2.inner_nodes[n] = T.inner_nodes[n]

\* rr is what try_rotate_right_for_inner_node made of T through slot s of
\* the node id, whose children there are left and right
RotatedRight(T, rr, id, s, left, right) ==
    /\ rr.ok = InnerCanLend(T, id, s)
    /\ ~rr.ok => rr.T = T
    /\ rr.ok =>
          /\ SameBut(T, rr.T, {id, child_at(T.inner_nodes[id], s).id,
                               child_at(T.inner_nodes[id], s + 1).id})
          /\ rr.T.inner_nodes[id]
                = [T.inner_nodes[id] EXCEPT !.slot_key[s + 1] = left.slot_key[inner_len(left)]]
          /\ InnerChild(rr.T, id, s).slot_key = SubSeq(left.slot_key, 1, inner_len(left) - 1)
          /\ InnerChild(rr.T, id, s).child_id = SubSeq(left.child_id, 1, inner_len(left))
          /\ InnerChild(rr.T, id, s + 1).slot_key
                = <<T.inner_nodes[id].slot_key[s + 1]>> \o right.slot_key
          /\ InnerChild(rr.T, id, s + 1).child_id
                = <<left.child_id[inner_len(left) + 1]>> \o right.child_id

\* rl is what try_rotate_left_for_inner_node made of T through slot s of
\* the node id, whose children there are left and right
RotatedLeft(T, rl, id, s, left, right) ==
    /\ rl.ok = InnerCanLend(T, id, s + 1)
    /\ ~rl.ok => rl.T = T
    /\ rl.ok =>
          /\ SameBut(T, rl.T, {id, child_at(T.inner_nodes[id], s).id,
                               child_at(T.inner_nodes[id], s + 1).id})
          /\ rl.T.inner_nodes[id]
                = [T.inner_nodes[id] EXCEPT !.slot_key[s + 1] = right.slot_key[1]]
          /\ InnerChild(rl.T, id, s + 1).slot_key = Tail(right.slot_key)
          /\ InnerChild(rl.T, id, s + 1).child_id = Tail(right.child_id)
          /\ InnerChild(rl.T, id, s).slot_key
                = Append(left.slot_key, T.inner_nodes[id].slot_key[s + 1])
          /\ InnerChild(rl.T, id, s).child_id = Append(left.child_id, right.child_id[1])

\* h is what handle_inner_under_size made of T for the under-size child
\* idx of the node id: the rotation from the left sibling if that one can
\* lend, else the one from the right sibling if that one can, else a merge
InnerFixOrder(T, h, id, idx) ==
    /\ h.T.panic = "none"
    /\ IF InnerCanLend(T, id, idx - 1)
       THEN h.T = try_rotate_right_for_inner_node(T, id, idx - 1).T /\ h.res = "Done"
       ELSE IF InnerCanLend(T, id, idx + 1)
       THEN h.T = try_rotate_left_for_inner_node(T, id, idx).T /\ h.res = "Done"
       ELSE /\ inner_len(h.T.inner_nodes[id]) = inner_len(T.inner_nodes[id]) - 1
            /\ \E n \in 1..Len(T.inner_nodes) :
                  h.T.inner_nodes[n].taken /\ ~T.inner_nodes[n].taken

\* the inner rebalancing at the node id of T, whose child idx is under size
InnerRebalance(T, id, idx, kv) ==
    /\ idx > 0 =>
          RotatedRight(T, try_rotate_right_for_inner_node(T, id, idx - 1), id, idx - 1,
                       InnerChild(T, id, idx - 1), InnerChild(T, id, idx))
    /\ idx < inner_len(T.inner_nodes[id]) =>
          RotatedLeft(T, try_rotate_left_for_inner_node(T, id, idx), id, idx,
                      InnerChild(T, id, idx), InnerChild(T, id, idx + 1))
    /\ InnerFixOrder(T, handle_inner_under_size(T, id, idx, kv, "none"), id, idx)

\* the stored keys under a root of three levels whose removal merges two
\* leaves and leaves their parent under the inner minimum
InnerUnderSizeKeys ==
    {k \in WideKeys :
        /\ ref_map[k] # None
        /\ root.kind = "Inner"
        /\ Len(descend(Tree, root, k, <<>>).stack) = 2
        /\ ~leaf_able_to_lend(leaf_nodes[descend(Tree, root, k, <<>>).leaf_id], leaf_n)
        /\ handle_leaf_under_size(Tree, descend(Tree, root, k, <<>>).stack[2][1],
                                  descend(Tree, root, k, <<>>).stack[2][2],
                                  locate_child_idx(
                                      leaf_nodes[descend(Tree, root, k, <<>>).leaf_id],
                                      k).idx).res = "InnerUnderSize"}

\* the tree as the leaf merge for the removal of k leaves it, with the
\* parent of the merged leaves under size
AfterLeafMerge(k) ==
    handle_leaf_under_size(Tree, descend(Tree, root, k, <<>>).stack[2][1],
                           descend(Tree, root, k, <<>>).stack[2][2],
                           locate_child_idx(leaf_nodes[descend(Tree, root, k, <<>>).leaf_id],
                                            k).idx)

\* C32: an inner rotation through parent slot s: rotate-right succeeds iff
\* the left child can lend, and then the left child's last key becomes the
\* parent's key(s), the parent's old key(s) the first key of the right
\* child and the left child's last child pointer the right child's first;
\* rotate-left is the mirror image; when the sibling cannot lend, None comes
\* back and parent and children are as before. On inner under-size the
\* rotation from the left sibling is tried first, then the one from the
\* right, before any merge.
C32_InnerRotation ==
    Ok => \A k \in InnerUnderSizeKeys :
            InnerRebalance(AfterLeafMerge(k).T, root.id,
                           descend(Tree, root, k, <<>>).stack[1][2], AfterLeafMerge(k).kv)

\* the removal of a key leaves an inner node under size between two
\* siblings that can both lend
C32_Witness ==
    /\ Ok
    /\ root.kind = "Inner"
    /\ \E k \in InnerUnderSizeKeys :
          /\ descend(Tree, root, k, <<>>).stack[1][2] = 1
          /\ InnerCanLend(AfterLeafMerge(k).T, root.id, 0)
          /\ InnerCanLend(AfterLeafMerge(k).T, root.id, 2)
          /\ remove(Tree, k).T.panic = "none"

\* ---- C33
\* m is what merge_inner_node made of T at slot s of the node id, whose
\* children there are the inner nodes left and right
InnersMerged(T, m, id, s, left, right) ==
    /\ m.T.panic = "none"
    /\ SameBut(T, m.T, {id, child_at(T.inner_nodes[id], s).id,
                        child_at(T.inner_nodes[id], s + 1).id})
    /\ m.T.inner_nodes[child_at(T.inner_nodes[id], s).id].slot_key
          = left.slot_key \o <<T.inner_nodes[id].slot_key[s + 1]>> \o right.slot_key
    /\ m.T.inner_nodes[child_at(T.inner_nodes[id], s).id].child_id
          = left.child_id \o right.child_id
    /\ ~m.T.inner_nodes[child_at(T.inner_nodes[id], s).id].taken
    /\ m.T.inner_nodes[id].slot_key = slice_remove(T.inner_nodes[id].slot_key, s)
    /\ m.T.inner_nodes[id].child_id = slice_remove(T.inner_nodes[id].child_id, s + 1)
    /\ m.T.inner_nodes[child_at(T.inner_nodes[id], s + 1).id].taken
    /\ inner_len(m.T.inner_nodes[child_at(T.inner_nodes[id], s + 1).id]) = 0
    /\ (m.res = "UnderSize")
          = (inner_len(m.T.inner_nodes[id]) < inner_minimum_size(T.inner_n))
    /\ m.res \in {"Done", "UnderSize"}

\* the merge handle_inner_under_size falls back on at the node id of T,
\* whose child idx is under size and has no sibling that can lend
InnerMerge(T, id, idx, s) ==
    (~InnerCanLend(T, id, idx - 1) /\ ~InnerCanLend(T, id, idx + 1)) =>
        InnersMerged(T, merge_inner_node(T, id, s), id, s,
                     InnerChild(T, id, s), InnerChild(T, id, s + 1))

\* C33: an inner merge at parent slot s: the left child's keys become its
\* own, then the parent's key(s), then the right child's, and its children
\* its own followed by the right child's; the parent loses key(s) and the
\* child pointer at s + 1 and keeps everything else in order; the right
\* child is taken out of the store; the result is UnderSize iff the parent
\* is now below its minimum.
C33_InnerMerge ==
    Ok => \A k \in InnerUnderSizeKeys :
            InnerMerge(AfterLeafMerge(k).T, root.id,
                       descend(Tree, root, k, <<>>).stack[1][2],
                       IF descend(Tree, root, k, <<>>).stack[1][2] > 0
                       THEN descend(Tree, root, k, <<>>).stack[1][2] - 1
                       ELSE 0)

\* the removal of a key leaves the middle one of three inner nodes under
\* size, neither sibling can lend, and the merge leaves the root its
\* minimum or more
C33_Witness ==
    /\ Ok
    /\ root.kind = "Inner"
    /\ inner_len(inner_nodes[root.id]) = 2
    /\ \E k \in InnerUnderSizeKeys :
          /\ descend(Tree, root, k, <<>>).stack[1][2] = 1
          /\ ~InnerCanLend(AfterLeafMerge(k).T, root.id, 0)
          /\ ~InnerCanLend(AfterLeafMerge(k).T, root.id, 2)
          /\ merge_inner_node(AfterLeafMerge(k).T, root.id, 0).res = "Done"

\* ---- C34
\* the root of T is not an inner node without keys
RootHasKey(T) ==
    T.root.kind = "Inner" =>
        /\ ~T.inner_nodes[T.root.id].taken
        /\ inner_len(T.inner_nodes[T.root.id]) >= 1

\* r is the result of a remove on T: the root moved exactly when the inner
\* root lost its only key, and then to the one child left to it
RootShrink(T, r) ==
    /\ r.T.panic = "none"
    /\ RootHasKey(r.T)
    /\ r.T.root # T.root =>
          /\ T.root.kind = "Inner"
          /\ inner_len(T.inner_nodes[T.root.id]) = 1
          /\ inner_len(r.T.inner_nodes[T.root.id]) = 0
          /\ r.T.inner_nodes[T.root.id].child_id = <<r.T.root>>
          /\ r.T.root = child_at(T.inner_nodes[T.root.id], 0)
          /\ r.T.root.kind = child_at(T.inner_nodes[T.root.id], 1).kind
          /\ height(r.T, r.T.root) = height(T, T.root) - 1
    /\ r.T.root = T.root =>
          /\ height(r.T, r.T.root) = height(T, T.root)
          /\ T.root.kind = "Inner" => inner_len(r.T.inner_nodes[T.root.id]) >= 1

\* C34: after every completed remove the root is never an inner node with
\* zero separator keys: when a merge of the root's last two children takes
\* its only separator away, the one remaining child becomes the root (a leaf
\* if the children were leaves); a remove that does not empty the inner
\* root leaves the root id as it was.
C34_RootShrink ==
    Ok => /\ RootHasKey(Tree)
          /\ \A k \in WideKeys : RootShrink(Tree, remove(Tree, k))

\* a root of one key over two inner nodes that cannot lend, and a key whose
\* removal merges them and makes the merged node the root
C34_Witness ==
    /\ Ok
    /\ root.kind = "Inner"
    /\ inner_n = 3
    /\ inner_len(inner_nodes[root.id]) = 1
    /\ \E k \in WideKeys :
          /\ remove(Tree, k).T.root # root
          /\ remove(Tree, k).T.root.kind = "Inner"
    /\ \E k \in WideKeys :
          /\ ref_map[k] # None
          /\ remove(Tree, k).T.root = root

\* ---- C35
\* the groups of the keys of a slice, and the number of its keys in group g
SliceGroups(keys) == {from_ref(keys[i]) : i \in 1..Len(keys)}
InGroup(keys, g) == Cardinality({i \in 1..Len(keys) : from_ref(keys[i]) = g})

\* a is the summary expected for the sorted slice keys
SummaryOf(keys, a) ==
    /\ (a = GroupCount_Zero) = (keys = <<>>)
    /\ Cardinality(SliceGroups(keys)) = 1 =>
          a = GroupCount_One(from_ref(keys[1]), Len(keys))
    /\ Cardinality(SliceGroups(keys)) >= 2 =>
          a = GroupCount_Multiple(
                  <<from_ref(keys[1]), InGroup(keys, from_ref(keys[1]))>>,
                  <<from_ref(keys[Len(keys)]), InGroup(keys, from_ref(keys[Len(keys)]))>>,
                  Cardinality(SliceGroups(keys)))

\* C35: GroupCount::from_leaf on a sorted key slice gives Zero iff the slice
\* is empty, One(g, n) iff all n keys are of group g, and else Multiple with
\* min_group the first group and the number of its keys, max_group the last
\* group and the number of its keys and group_count the number of distinct
\* groups, for slices of two groups and for slices of three or more groups
\* with repeated keys in a middle group.
C35_FromLeaf ==
    \A c \in 1..Len(fold.chunks) : SummaryOf(fold.chunks[c], from_leaf(fold.chunks[c]))

\* the same for the slices of at most two groups
C35_FromLeafTwoGroups ==
    \A c \in 1..Len(fold.chunks) :
        Cardinality(SliceGroups(fold.chunks[c])) <= 2 =>
            SummaryOf(fold.chunks[c], from_leaf(fold.chunks[c]))

\* ---- C36
\* the inner levels above the leaves of T
Levels(T) == height(T, T.root) - 1

\* the stack entries the descent of the call has pushed so far
Pushed ==
    CASE call.op = "insert" -> call.steps
      [] call.op = "remove" -> IF call.pc = "descend" THEN call.steps ELSE call.steps - 1
      [] call.op = "get" -> 0

\* the call in progress has gone as far as its loops may: the descent has
\* gone down one level per step and is at a leaf after Levels steps, every
\* entry pushed is on the stack or was popped once, and the root is
\* replaced only with the stack empty
WithinBounds ==
    call.path = "descent" =>
        /\ call.pc = "descend" =>
              /\ Tree = call.T0
              /\ call.steps = Levels(call.T0) - (height(Tree, call.id) - 1)
        /\ call.pc \in {"propagate", "done"} =>
              /\ call.steps = Levels(call.T0)
              /\ call.id.kind = "Leaf"
        /\ Len(call.stack) + call.pops = Pushed
        /\ call.pops <= Levels(call.T0)
        /\ (call.pc = "done" /\ root # call.T0.root) => call.stack = <<>>

\* the steps of a call make up the call: when it is about to return, the
\* tree is what the whole call makes of the tree it began on
StepsMakeTheCall ==
    call.pc = "done" => Tree = Whole(call.T0, call.op, call.k, call.v).T

\* C36: every call of insert, remove and get terminates. The descent is at
\* a leaf after exactly as many steps as the tree has inner levels, the
\* split propagation of insert and the under-size propagation of remove pop
\* at most one stack entry per inner level and end at the latest with the
\* stack empty, where the root grows or shrinks, and the call returns.
C36_Terminates ==
    /\ []WithinBounds
    /\ (call.op # "idle") ~> (call.op = "idle")

\* a remove has gone down both inner levels, the under-size leaf and the
\* under-size inner node were merged, the stack was popped empty and the
\* root gave way to its child
C36_Witness ==
    /\ call.op = "remove"
    /\ call.pc = "done"
    /\ call.steps = 2
    /\ call.pops = 1
    /\ call.stack = <<>>
    /\ root # call.T0.root

\* ---- C37
\* no leaf in the store of T holds more than LN entries
LeafCapacity(T) ==
    \A id \in 1..Len(T.leaf_nodes) : leaf_len(T.leaf_nodes[id]) <= T.leaf_n

\* no inner node in the store of T holds more than IN keys, nor more than
\* IN + 1 children
InnerCapacity(T) ==
    \A id \in 1..Len(T.inner_nodes) :
        /\ inner_len(T.inner_nodes[id]) <= T.inner_n
        /\ Len(T.inner_nodes[id].child_id) <= T.inner_n + 1

C37_CapacityEven ==
    /\ LeafCapacity(Tree)
    /\ inner_n % 2 = 0 => InnerCapacity(Tree)

\* ---- C38
\* the depths below node_id at which the leaves of its subtree lie
RECURSIVE LeafDepths(_, _)
LeafDepths(T, node_id) ==
    IF node_id.kind = "Leaf" THEN {0}
    ELSE {d + 1 : d \in UNION {LeafDepths(T, T.inner_nodes[node_id.id].child_id[i]) :
                                  i \in 1..Len(T.inner_nodes[node_id.id].child_id)}}

\* all leaves of T lie at one depth, and the children of every inner node
\* are all leaves or all inner nodes
Balanced(T) ==
    /\ Cardinality(LeafDepths(T, T.root)) = 1
    /\ \A id \in subtree_inners(T, T.root) :
          \A i \in 1..Len(T.inner_nodes[id].child_id) :
              T.inner_nodes[id].child_id[i].kind = T.inner_nodes[id].child_id[1].kind

\* r is the result of an insert on T: the height is kept, or the root has
\* grown, a new inner node over the old root and the node split off it,
\* and the height with it by one
GrowsByOne(T, r) ==
    /\ r.T.panic = "none"
    /\ Balanced(r.T)
    /\ r.T.root = T.root => height(r.T, r.T.root) = height(T, T.root)
    /\ r.T.root # T.root =>
          /\ r.T.root = InnerId(Len(r.T.inner_nodes))
          /\ Len(r.T.inner_nodes) > Len(T.inner_nodes)
          /\ child_at(r.T.inner_nodes[r.T.root.id], 0) = T.root
          /\ height(r.T, r.T.root) = height(T, T.root) + 1

\* r is the result of a remove on T: no cast of a sibling's id has met an
\* id of the other kind, and the height is kept, or the emptied root has
\* given way to its only child and the height has gone down by one
ShrinksByOne(T, r) ==
    /\ r.T.panic = "none"
    /\ Balanced(r.T)
    /\ r.T.root = T.root => height(r.T, r.T.root) = height(T, T.root)
    /\ r.T.root # T.root =>
          /\ T.root.kind = "Inner"
          /\ inner_len(r.T.inner_nodes[T.root.id]) = 0
          /\ r.T.root = child_at(T.inner_nodes[T.root.id], 0)
          /\ height(r.T, r.T.root) = height(T, T.root) - 1

\* C38: in every reachable state all leaves are at the same depth below the
\* root, so the children of an inner node are all leaves or all inner nodes
\* and the unchecked casts of the siblings of an under-size leaf or inner
\* node during the rebalancing of remove meet ids of the matching kind; the
\* height changes by one at a time only, through root growth and root
\* shrink.
C38_Balanced ==
    Ok => /\ Balanced(Tree)
          /\ \A k \in DeepKeys : GrowsByOne(Tree, insert(Tree, k, 1))
          /\ \A k \in DeepKeys : ShrinksByOne(Tree, remove(Tree, k))

\* a tree of three levels, grown from the empty tree, and a key whose
\* removal merges two inner nodes below the root and makes the merged node
\* the root
C38_Witness ==
    /\ Ok
    /\ height(Tree, root) = 3
    /\ \E k \in DeepKeys :
          /\ remove(Tree, k).T.root # root
          /\ remove(Tree, k).T.root.kind = "Inner"
          /\ \E id \in 1..Len(inner_nodes) :
                /\ ~inner_nodes[id].taken
                /\ remove(Tree, k).T.inner_nodes[id].taken

\* ---- C39
\* the leaf id names a slot of the store that is not taken
LiveLeaf(T, id) == id \in 1..Len(T.leaf_nodes) /\ ~T.leaf_nodes[id].taken

\* the slots of T that are taken, leaves and inner nodes
TakenLeaves(T) == {id \in 1..Len(T.leaf_nodes) : T.leaf_nodes[id].taken}
TakenInners(T) == {id \in 1..Len(T.inner_nodes) : T.inner_nodes[id].taken}

\* the leaves of T below its root
ReachLeaves(T) == {subtree_leaves(T, T.root)[i] : i \in 1..Len(subtree_leaves(T, T.root))}

\* every id reachable from the root of T names a node that is not taken:
\* the inner nodes and the leaves below the root, the prev and next of
\* those leaves, and the cached leaf id
Live(T) ==
    /\ \A id \in subtree_inners(T, T.root) :
          id \in 1..Len(T.inner_nodes) /\ ~T.inner_nodes[id].taken
    /\ \A id \in ReachLeaves(T) :
          /\ LiveLeaf(T, id)
          /\ T.leaf_nodes[id].prev # None => T.leaf_nodes[id].prev \in ReachLeaves(T)
          /\ T.leaf_nodes[id].next # None => T.leaf_nodes[id].next \in ReachLeaves(T)
    /\ T.leaf_cache.leaf_id # None => T.leaf_cache.leaf_id \in ReachLeaves(T)

\* r is what the remove of lib.rs makes of T, in its place what remove
\* working on the nodes in the store makes of it: every node taken on the
\* way down is back, none was read or written by its id while it was out
\* (the two would differ, or a panic site be reached), and the slots left
\* taken are those of the nodes a merge has absorbed, which were below the
\* root and are no longer
PutBack(T, r, in_place) ==
    /\ r.T.panic = "none"
    /\ r.T = in_place.T
    /\ r.ret = in_place.ret
    /\ Live(r.T)
    /\ TakenLeaves(T) \subseteq TakenLeaves(r.T)
    /\ TakenInners(T) \subseteq TakenInners(r.T)
    /\ TakenLeaves(r.T) \ TakenLeaves(T) \subseteq ReachLeaves(T) \ ReachLeaves(r.T)
    /\ TakenInners(r.T) \ TakenInners(T) \subseteq
          subtree_inners(T, T.root) \ subtree_inners(r.T, r.T.root)
    /\ Cardinality(ReachLeaves(T)) - Cardinality(ReachLeaves(r.T)) =
          Cardinality(TakenLeaves(r.T) \ TakenLeaves(T))

\* C39: after every completed operation every id reachable from the root,
\* the child ids of inner nodes, the prev and next links of leaves and the
\* cached leaf id, names a node that is live in the store; every inner node
\* that remove took out on its way down is put back before remove returns
\* and is not dereferenced by id while it is out; only the nodes absorbed by
\* a merge stay taken, and no reachable node points to them.
C39_Live ==
    Ok => /\ Live(Tree)
          /\ \A k \in TakeKeys : PutBack(Tree, remove_taking(Tree, k), remove(Tree, k))

\* a tree of three levels in which a remove has merged leaves before, and a
\* key whose removal, with the root and the inner node below it taken out,
\* merges two leaves and two inner nodes
C39_Witness ==
    /\ Ok
    /\ height(Tree, root) = 3
    /\ TakenLeaves(Tree) # {}
    /\ \E k \in TakeKeys :
          /\ TakenLeaves(remove_taking(Tree, k).T) # TakenLeaves(Tree)
          /\ TakenInners(remove_taking(Tree, k).T) # TakenInners(Tree)
          /\ remove_taking(Tree, k).T.root = root

=============================================================================
